---- MODULE Spec2Model ----
(***************************************************************************)
(* Drift reconciliation engine of osc (internal/drift, cmd/driftcheck.go). *)
(*                                                                         *)
(* The specifications share the module's variables:                       *)
(*   SpecCompare  the pure function CompareResources applied to bounded    *)
(*                state/truth resource lists;                              *)
(*   SpecTruth    ExtractResourcesFromOsc applied to osc output;           *)
(*   SpecState    ExtractResourcesFromTerraform applied to module trees;   *)
(*   SpecExtract  either extractor on its inputs;                          *)
(*   SpecLoad     LoadTerraformStateFromDir and LoadTruthFromDir applied   *)
(*                to directory listings;                                   *)
(*   Spec         one run of the "drift check" command: discovery, the     *)
(*                per-project loop of ProcessAllProjects, filterReport,    *)
(*                rendering and the process exit code.                     *)
(***************************************************************************)
EXTENDS Integers, Sequences, FiniteSets, TLC

VARIABLES
    pc,             \* position of the run / of the comparison
    state,          \* []Resource loaded from <project>/state (CompareResources' first argument)
    truth,          \* []Resource loaded from <project>/truth (CompareResources' second argument)
    diffs,          \* []DiffResult returned by CompareResources
    projects,       \* []ProjectDir returned by DiscoverProjects (directory names)
    idx,            \* loop index of ProcessAllProjects (1-based)
    report,         \* *DriftReport built by ProcessAllProjects
    resourceFilter, \* --resource flag
    statusFilter,   \* --status flag
    filtered,       \* *DriftReport returned by filterReport
    output,         \* what the formatter was asked to render
    exitCode,       \* exit code of the process
    root,           \* the directory tree under the projects path (DiscoverProjects' argument)
    doc,            \* the input of an extractor or loader: parsed document or directory listing
    projectArg,     \* the projectName argument of an extractor or loader
    extracted,      \* []Resource returned by an extractor or loader
    err             \* whether the loader returned an error

vars == <<pc, state, truth, diffs, projects, idx, report,
          resourceFilter, statusFilter, filtered, output, exitCode,
          root, doc, projectArg, extracted, err>>

\* what an extractor or loader call reads and writes
extractVars == <<doc, projectArg, extracted, err>>

(***************************************************************************)
(* Bounds of the model.                                                    *)
(***************************************************************************)
\* total number of resources in the state and truth lists of one comparison
MaxRes == 3
\* length of a server's SecurityGroups list
MaxSG == 3
\* number of entries of the projects directory
MaxProjects == 2
\* number of rows of a truth document of several rows
MaxRows == 3
\* number of modules of a Terraform module tree, the root module included
MaxModules == 3
\* total number of records of a Terraform module tree
MaxTfRes == 3

(***************************************************************************)
(* types.go: kinds, statuses, Resource, DiffResult.                        *)
(***************************************************************************)
ResourceTypeServer == "server"
ResourceTypeSecurityGroup == "security-group"
ResourceTypeSecurityGroupRule == "security-group-rule"

ResourceTypes ==
    {ResourceTypeServer, ResourceTypeSecurityGroup, ResourceTypeSecurityGroupRule}

StatusMissingInTruth == "missing_in_truth"
StatusMissingInState == "missing_in_state"
StatusNameChanged == "name_changed"
StatusSecGroupChanged == "secgroups_changed"
StatusRuleChanged == "rule_changed"

DriftStatuses ==
    {StatusMissingInTruth, StatusMissingInState, StatusNameChanged,
     StatusSecGroupChanged, StatusRuleChanged}

\* A Go []string: nil and the empty non-nil slice are different values of
\* length 0.
NilSlice == [isNil |-> TRUE, elems |-> <<>>]

Slice(elems) == [isNil |-> FALSE, elems |-> elems]

\* A Go map[string]any, as its set of <<key, value>> pairs.
NoProperties == {}

Resource(id, name, type, projectName, parentID, parentName, securityGroups, properties) ==
    [ID |-> id, Name |-> name, Type |-> type, ProjectName |-> projectName,
     ParentID |-> parentID, ParentName |-> parentName,
     SecurityGroups |-> securityGroups, Properties |-> properties]

\* The Details string, by its parts: a fixed sentence, or the joined
\* "name: old -> new" and "security_groups: added: [..], removed: [..]".
Details(text, nameChange, added, removed) ==
    [text |-> text, nameChange |-> nameChange, added |-> added, removed |-> removed]

NoDetails == Details("", <<>>, <<>>, <<>>)

DetailsMissingInTruth ==
    Details("Resource exists in Terraform state but not in OpenStack", <<>>, <<>>, <<>>)

DetailsMissingInState ==
    Details("Resource exists in OpenStack but not in Terraform state", <<>>, <<>>, <<>>)

(***************************************************************************)
(* compare.go: helpers.                                                    *)
(***************************************************************************)
\* sort.Strings orders byte-wise; the names the model uses, in that order.
StringOrder == <<"default", "monitoring", "web">>

Rank(s) == CHOOSE i \in DOMAIN StringOrder : StringOrder[i] = s

RECURSIVE SortStrings(_)
\* sort.Strings: insertion of the head into the sorted tail (keeps repeats)
SortStrings(s) ==
    IF s = <<>> THEN <<>>
    ELSE LET rest == SortStrings(Tail(s))
             lo == SelectSeq(rest, LAMBDA x : Rank(x) < Rank(Head(s)))
             hi == SelectSeq(rest, LAMBDA x : Rank(x) >= Rank(Head(s)))
         IN lo \o <<Head(s)>> \o hi

RECURSIVE Dedup(_, _)
\* the loop of normalizeSecurityGroups: keep the first occurrence of each name
Dedup(s, seen) ==
    IF s = <<>> THEN <<>>
    ELSE IF Head(s) \in seen THEN Dedup(Tail(s), seen)
         ELSE <<Head(s)>> \o Dedup(Tail(s), seen \cup {Head(s)})

normalizeSecurityGroups(sgs) ==
    IF Len(sgs.elems) = 0 THEN NilSlice
    ELSE Slice(SortStrings(Dedup(sgs.elems, {})))

stringSlicesEqual_LenOnly(a, b) == Len(a.elems) = Len(b.elems)

stringSlicesEqual(a, b) ==
    /\ Len(a.elems) = Len(b.elems)
    /\ \A i \in 1..Len(a.elems) : a.elems[i] = b.elems[i]

\* diffStringSlices as if it returned <<removed, added>>
diffStringSlices_Swapped(s, t) ==
    LET stateSet == {s.elems[i] : i \in 1..Len(s.elems)}
        truthSet == {t.elems[i] : i \in 1..Len(t.elems)}
    IN <<SelectSeq(s.elems, LAMBDA x : x \notin truthSet),
         SelectSeq(t.elems, LAMBDA x : x \notin stateSet)>>

\* diffStringSlices: <<added, removed>>, each in the order of its source slice
diffStringSlices(s, t) ==
    LET stateSet == {s.elems[i] : i \in 1..Len(s.elems)}
        truthSet == {t.elems[i] : i \in 1..Len(t.elems)}
    IN <<SelectSeq(t.elems, LAMBDA x : x \notin stateSet),
         SelectSeq(s.elems, LAMBDA x : x \notin truthSet)>>

getParentSG(res) ==
    IF res.ParentName # "" THEN res.ParentName ELSE res.ParentID

\* a comparator's result: the status "" means the fields agree
NoChange == [status |-> "", details |-> NoDetails]

compareServerProperties_SGFirst(stateRes, truthRes) ==
    LET stateSGs == normalizeSecurityGroups(stateRes.SecurityGroups)
        truthSGs == normalizeSecurityGroups(truthRes.SecurityGroups)
        d == diffStringSlices(stateSGs, truthSGs)
        sgChanged == /\ ~stringSlicesEqual(stateSGs, truthSGs)
                     /\ (Len(d[1]) > 0 \/ Len(d[2]) > 0)
        nameChange == IF stateRes.Name # truthRes.Name
                      THEN <<stateRes.Name, truthRes.Name>> ELSE <<>>
        det == Details("", nameChange,
                       IF sgChanged THEN d[1] ELSE <<>>,
                       IF sgChanged THEN d[2] ELSE <<>>)
    IN IF nameChange = <<>> /\ ~sgChanged THEN NoChange
       ELSE IF sgChanged THEN [status |-> StatusSecGroupChanged, details |-> det]
       ELSE [status |-> StatusNameChanged, details |-> det]

compareServerProperties(stateRes, truthRes) ==
    LET stateSGs == normalizeSecurityGroups(stateRes.SecurityGroups)
        truthSGs == normalizeSecurityGroups(truthRes.SecurityGroups)
        d == diffStringSlices(stateSGs, truthSGs)
        sgChanged == /\ ~stringSlicesEqual(stateSGs, truthSGs)
                     /\ (Len(d[1]) > 0 \/ Len(d[2]) > 0)
        nameChange == IF stateRes.Name # truthRes.Name
                      THEN <<stateRes.Name, truthRes.Name>> ELSE <<>>
        \* strings.Join(changes, "; ")
        det == Details("", nameChange,
                       IF sgChanged THEN d[1] ELSE <<>>,
                       IF sgChanged THEN d[2] ELSE <<>>)
    IN IF nameChange = <<>> /\ ~sgChanged THEN NoChange
       ELSE IF stateRes.Name # truthRes.Name
            THEN [status |-> StatusNameChanged, details |-> det]
       ELSE [status |-> StatusSecGroupChanged, details |-> det]

compareSecurityGroupProperties_Props(stateRes, truthRes) ==
    IF stateRes.Name # truthRes.Name \/ stateRes.Properties # truthRes.Properties
    THEN [status |-> StatusNameChanged,
          details |-> Details("", <<stateRes.Name, truthRes.Name>>, <<>>, <<>>)]
    ELSE NoChange

compareSecurityGroupProperties(stateRes, truthRes) ==
    IF stateRes.Name # truthRes.Name
    THEN [status |-> StatusNameChanged,
          details |-> Details("", <<stateRes.Name, truthRes.Name>>, <<>>, <<>>)]
    ELSE NoChange

compareSecurityGroupRuleProperties_Parent(stateRes, truthRes) ==
    IF stateRes.ParentID # truthRes.ParentID
    THEN [status |-> StatusRuleChanged, details |-> NoDetails]
    ELSE NoChange

compareSecurityGroupRuleProperties(stateRes, truthRes) == NoChange

\* the comparator as if every kind were compared as servers are
PropertyComparer_ServerForAll(propComparer, stateRes, truthRes) ==
    compareServerProperties(stateRes, truthRes)

\* a PropertyComparer value, by the name of the function it holds
PropertyComparer(propComparer, stateRes, truthRes) ==
    CASE propComparer = "compareServerProperties" ->
            compareServerProperties(stateRes, truthRes)
      [] propComparer = "compareSecurityGroupProperties" ->
            compareSecurityGroupProperties(stateRes, truthRes)
      [] propComparer = "compareSecurityGroupRuleProperties" ->
            compareSecurityGroupRuleProperties(stateRes, truthRes)

\* groupByType: a map holding a key only for the types that occur
groupByType(resources) ==
    [t \in {resources[i].Type : i \in DOMAIN resources} |->
        SelectSeq(resources, LAMBDA r : r.Type = t)]

\* reading a Go map of slices: a missing key reads as the nil slice
TypeGroup(byType, t) == IF t \in DOMAIN byType THEN byType[t] ELSE <<>>

\* the index loops as if an ID already held were not overwritten
resourcesByID_FirstWins(resources) ==
    [id \in {resources[i].ID : i \in DOMAIN resources} |->
        LET first == CHOOSE i \in DOMAIN resources :
                         /\ resources[i].ID = id
                         /\ \A j \in DOMAIN resources : resources[j].ID = id => i <= j
        IN resources[first]]

\* the loops filling stateByID / truthByID: a later element overwrites an
\* earlier one with the same ID
resourcesByID(resources) ==
    [id \in {resources[i].ID : i \in DOMAIN resources} |->
        LET last == CHOOSE i \in DOMAIN resources :
                        /\ resources[i].ID = id
                        /\ \A j \in DOMAIN resources : resources[j].ID = id => j <= i
        IN resources[last]]

RECURSIVE Orders(_)
\* the orders in which one range over a Go map may visit a set of keys
Orders(S) ==
    IF S = {} THEN {<<>>}
    ELSE UNION {{<<x>> \o o : o \in Orders(S \ {x})} : x \in S}

DiffResult(res, status, details) ==
    [ResourceType |-> res.Type, ResourceName |-> res.Name, ResourceID |-> res.ID,
     ProjectName |-> res.ProjectName, ParentSG |-> getParentSG(res),
     Status |-> status, Details |-> details]

\* the first loop as if it returned at the first ID it visits
missingInTruth_FirstOnly(stateByID, truthByID) ==
    IF \A id \in DOMAIN stateByID : id \in DOMAIN truthByID THEN {<<>>}
    ELSE {<<DiffResult(stateByID[id], StatusMissingInTruth, DetailsMissingInTruth)>> :
            id \in {x \in DOMAIN stateByID : x \notin DOMAIN truthByID}}

\* first loop of compareResourcesByType: in state, not in truth
missingInTruth(stateByID, truthByID) ==
    {[i \in 1..Len(o) |->
        DiffResult(stateByID[o[i]], StatusMissingInTruth, DetailsMissingInTruth)] :
     o \in Orders({id \in DOMAIN stateByID : id \notin DOMAIN truthByID})}

\* the second loop as if it appended nothing
missingInState_None(stateByID, truthByID) == {<<>>}

missingInState_WrongStatus(stateByID, truthByID) ==
    {[i \in 1..Len(o) |->
        DiffResult(truthByID[o[i]], StatusMissingInTruth, DetailsMissingInState)] :
     o \in Orders({id \in DOMAIN truthByID : id \notin DOMAIN stateByID})}

\* second loop: in truth, not in state
missingInState(stateByID, truthByID) ==
    {[i \in 1..Len(o) |->
        DiffResult(truthByID[o[i]], StatusMissingInState, DetailsMissingInState)] :
     o \in Orders({id \in DOMAIN truthByID : id \notin DOMAIN stateByID})}

\* third loop: in both, the comparator reports a status
changed(stateByID, truthByID, propComparer) ==
    {[i \in 1..Len(o) |->
        LET c == PropertyComparer(propComparer, stateByID[o[i]], truthByID[o[i]])
        IN DiffResult(stateByID[o[i]], c.status, c.details)] :
     o \in Orders({id \in DOMAIN stateByID :
                     /\ id \in DOMAIN truthByID
                     /\ PropertyComparer(propComparer, stateByID[id], truthByID[id]).status # ""})}

\* the three loops as if the comparison of matching resources ran first
compareResourcesByType_ChangedFirst(stateResources, truthResources, propComparer) ==
    LET stateByID == resourcesByID(stateResources)
        truthByID == resourcesByID(truthResources)
    IN {c \o a \o b :
            a \in missingInTruth(stateByID, truthByID),
            b \in missingInState(stateByID, truthByID),
            c \in changed(stateByID, truthByID, propComparer)}

\* every result compareResourcesByType can return (map iteration order is
\* unspecified, each range statement draws its own)
compareResourcesByType(stateResources, truthResources, propComparer) ==
    LET stateByID == resourcesByID(stateResources)
        truthByID == resourcesByID(truthResources)
    IN {a \o b \o c :
            a \in missingInTruth(stateByID, truthByID),
            b \in missingInState(stateByID, truthByID),
            c \in changed(stateByID, truthByID, propComparer)}

\* the comparison as if the two lists were matched by ID without grouping
CompareResources_Ungrouped(s, t) == compareResourcesByType(s, t, "compareServerProperties")

\* every result CompareResources can return
CompareResources(s, t) ==
    LET stateByType == groupByType(s)
        truthByType == groupByType(t)
    IN {a \o b \o c :
            a \in compareResourcesByType(TypeGroup(stateByType, ResourceTypeServer),
                                         TypeGroup(truthByType, ResourceTypeServer),
                                         "compareServerProperties"),
            b \in compareResourcesByType(TypeGroup(stateByType, ResourceTypeSecurityGroup),
                                         TypeGroup(truthByType, ResourceTypeSecurityGroup),
                                         "compareSecurityGroupProperties"),
            c \in compareResourcesByType(TypeGroup(stateByType, ResourceTypeSecurityGroupRule),
                                         TypeGroup(truthByType, ResourceTypeSecurityGroupRule),
                                         "compareSecurityGroupRuleProperties")}

(***************************************************************************)
(* compare.go / types.go: counts, report, AddProject, HasDrift.            *)
(***************************************************************************)
\* the counts as if a repeated ID were counted once
CountResources_DistinctIDs(resources) ==
    [Servers |->
        Cardinality({resources[i].ID : i \in
            {j \in DOMAIN resources : resources[j].Type = ResourceTypeServer}}),
     SecurityGroups |->
        Cardinality({resources[i].ID : i \in
            {j \in DOMAIN resources : resources[j].Type = ResourceTypeSecurityGroup}}),
     SecurityGroupRules |->
        Cardinality({resources[i].ID : i \in
            {j \in DOMAIN resources : resources[j].Type = ResourceTypeSecurityGroupRule}})]

CountResources(resources) ==
    [Servers |->
        Cardinality({i \in DOMAIN resources : resources[i].Type = ResourceTypeServer}),
     SecurityGroups |->
        Cardinality({i \in DOMAIN resources : resources[i].Type = ResourceTypeSecurityGroup}),
     SecurityGroupRules |->
        Cardinality({i \in DOMAIN resources : resources[i].Type = ResourceTypeSecurityGroupRule})]

ProjectDrift(projectName, drifts, stateCount, truthCount) ==
    [ProjectName |-> projectName, Drifts |-> drifts,
     StateCount |-> stateCount, TruthCount |-> truthCount]

\* a Go map[K]int: a function on the keys it holds; a missing key reads 0
EmptyMap == [k \in {} |-> 0]

MapGet(m, k) == IF k \in DOMAIN m THEN m[k] ELSE 0

\* m[k]++
MapInc(m, k) == [x \in DOMAIN m \cup {k} |-> IF x = k THEN MapGet(m, k) + 1 ELSE m[x]]

NewDriftReport ==
    [Projects |-> <<>>,
     Summary |-> [TotalProjects |-> 0, TotalDrift |-> 0,
                  ByStatus |-> EmptyMap, ByType |-> EmptyMap]]

RECURSIVE TallyByStatus(_, _)
\* the loop of AddProject, for ByStatus
TallyByStatus(byStatus, drifts) ==
    IF drifts = <<>> THEN byStatus
    ELSE TallyByStatus(MapInc(byStatus, Head(drifts).Status), Tail(drifts))

RECURSIVE TallyByType(_, _)
\* the loop of AddProject, for ByType
TallyByType(byType, drifts) ==
    IF drifts = <<>> THEN byType
    ELSE TallyByType(MapInc(byType, Head(drifts).ResourceType), Tail(drifts))

AddProject_CountsProjects(r, project) ==
    [Projects |-> Append(r.Projects, project),
     Summary |-> [TotalProjects |-> r.Summary.TotalProjects + 1,
                  TotalDrift |-> r.Summary.TotalDrift + 1,
                  ByStatus |-> TallyByStatus(r.Summary.ByStatus, project.Drifts),
                  ByType |-> TallyByType(r.Summary.ByType, project.Drifts)]]

AddProject_TypeByStatus(r, project) ==
    [Projects |-> Append(r.Projects, project),
     Summary |-> [TotalProjects |-> r.Summary.TotalProjects + 1,
                  TotalDrift |-> r.Summary.TotalDrift + Len(project.Drifts),
                  ByStatus |-> TallyByStatus(r.Summary.ByStatus, project.Drifts),
                  ByType |-> TallyByStatus(r.Summary.ByType, project.Drifts)]]

AddProject_Prepends(r, project) ==
    [Projects |-> <<project>> \o r.Projects,
     Summary |-> [TotalProjects |-> r.Summary.TotalProjects + 1,
                  TotalDrift |-> r.Summary.TotalDrift + Len(project.Drifts),
                  ByStatus |-> TallyByStatus(r.Summary.ByStatus, project.Drifts),
                  ByType |-> TallyByType(r.Summary.ByType, project.Drifts)]]

AddProject(r, project) ==
    [Projects |-> Append(r.Projects, project),
     Summary |-> [TotalProjects |-> r.Summary.TotalProjects + 1,
                  TotalDrift |-> r.Summary.TotalDrift + Len(project.Drifts),
                  ByStatus |-> TallyByStatus(r.Summary.ByStatus, project.Drifts),
                  ByType |-> TallyByType(r.Summary.ByType, project.Drifts)]]

HasDrift(r) == r.Summary.TotalDrift > 0

(***************************************************************************)
(* cmd/driftcheck.go: filterReport.                                        *)
(***************************************************************************)
\* the switch on resourceFilter (no default case: match stays false)
matchResource(d, rf) ==
    CASE rf = "servers" -> d.ResourceType = ResourceTypeServer
      [] rf = "secgrps" -> d.ResourceType = ResourceTypeSecurityGroup
      [] rf = "rules" -> d.ResourceType = ResourceTypeSecurityGroupRule
      [] OTHER -> FALSE

\* the switch on statusFilter
matchStatus(d, sf) ==
    CASE sf = "missing_in_truth" -> d.Status = StatusMissingInTruth
      [] sf = "missing_in_state" -> d.Status = StatusMissingInState
      [] sf = "name_changed" -> d.Status = StatusNameChanged
      [] sf = "secgroups_changed" -> d.Status = StatusSecGroupChanged
      [] sf = "rule_changed" -> d.Status = StatusRuleChanged
      [] OTHER -> FALSE

\* the body of the inner loop: is d appended to filteredDrifts
keepDrift(d, rf, sf) ==
    /\ rf # "all" => matchResource(d, rf)
    /\ sf # "all" => matchStatus(d, sf)

RECURSIVE filterProjects(_, _, _, _)
\* the outer loop of filterReport over report.Projects
filterProjects(acc, ps, rf, sf) ==
    IF ps = <<>> THEN acc
    ELSE LET project == Head(ps)
             filteredDrifts == SelectSeq(project.Drifts, LAMBDA d : keepDrift(d, rf, sf))
         IN filterProjects(
                IF Len(filteredDrifts) > 0
                THEN AddProject(acc, ProjectDrift(project.ProjectName, filteredDrifts,
                                                  project.StateCount, project.TruthCount))
                ELSE acc,
                Tail(ps), rf, sf)

filterReport_ResourceOnly(r, rf, sf) ==
    IF rf = "all" /\ sf = "all" THEN r
    ELSE filterProjects(NewDriftReport, r.Projects, rf, "all")

filterReport(r, rf, sf) ==
    IF rf = "all" /\ sf = "all" THEN r
    ELSE filterProjects(NewDriftReport, r.Projects, rf, sf)

ResourceFilters == {"servers", "secgrps", "rules", "all"}

StatusFilters ==
    {"missing_in_truth", "missing_in_state", "name_changed",
     "secgroups_changed", "rule_changed", "all"}

(***************************************************************************)
(* truth.go: the truth extractor (osc JSON output -> []Resource).          *)
(***************************************************************************)
\* a nil map[string]string or one without keys
NoFields == [k \in {} |-> ""]

\* a nil *OscRuleFields
NilRuleFields ==
    [isNil |-> TRUE, Direction |-> "", Protocol |-> "", PortRange |-> "", RemoteIP |-> ""]

OscRuleFields(direction, protocol, portRange, remoteIP) ==
    [isNil |-> FALSE, Direction |-> direction, Protocol |-> protocol,
     PortRange |-> portRange, RemoteIP |-> remoteIP]

OscRow(type, id, name, projectName, ipAddress, securityGroups, parentID, parentName, ruleFields, fields) ==
    [Type |-> type, ID |-> id, Name |-> name, ProjectName |-> projectName,
     IPAddress |-> ipAddress, SecurityGroups |-> securityGroups, ParentID |-> parentID,
     ParentName |-> parentName, RuleFields |-> ruleFields, Fields |-> fields]

\* a nil *OscOutput
NilOscOutput == [isNil |-> TRUE, Data |-> <<>>]

OscOutput(data) == [isNil |-> FALSE, Data |-> data]

\* getOscField as if it returned the value of the last matching key
getOscField_LastKey(fields, keys) ==
    LET hits == {i \in 1..Len(keys) :
                    /\ keys[i] \in DOMAIN fields
                    /\ fields[keys[i]] # ""
                    /\ fields[keys[i]] # "n/a"}
    IN  IF hits = {} THEN ""
        ELSE fields[keys[CHOOSE i \in hits : \A j \in hits : i >= j]]

\* the value of the first key of `keys` that the map holds with a value other
\* than "" and "n/a"; "" when there is none
getOscField(fields, keys) ==
    LET hits == {i \in 1..Len(keys) :
                    /\ keys[i] \in DOMAIN fields
                    /\ fields[keys[i]] # ""
                    /\ fields[keys[i]] # "n/a"}
    IN  IF hits = {} THEN ""
        ELSE fields[keys[CHOOSE i \in hits : \A j \in hits : i <= j]]

\* the project of a row as if the name written in the record came first
oscProject_RecordFirst(row, projectName) ==
    IF row.ProjectName # "" THEN row.ProjectName
    ELSE IF projectName # "" THEN projectName
    ELSE getOscField(row.Fields, <<"Project Name", "project_name", "project">>)

\* the three extractors return a *Resource: <<>> for nil, <<r>> for &r
oscProject(row, projectName) ==
    IF projectName # "" THEN projectName
    ELSE IF row.ProjectName # "" THEN row.ProjectName
    ELSE getOscField(row.Fields, <<"Project Name", "project_name", "project">>)

extractOscServer(row, projectName) ==
    LET id == IF row.ID # "" THEN row.ID
              ELSE getOscField(row.Fields, <<"Server ID", "server_id", "id">>)
        name == IF row.Name # "" THEN row.Name
                ELSE getOscField(row.Fields, <<"Server Name", "server_name", "name">>)
        ipAddr == IF row.IPAddress # "" THEN row.IPAddress
                  ELSE getOscField(row.Fields, <<"IPv4 Address", "ipv4_address", "ip_address">>)
    IN  IF id = "" THEN <<>>
        ELSE <<Resource(id, name, ResourceTypeServer, oscProject(row, projectName), "", "",
                        row.SecurityGroups, {<<"ip_address", ipAddr>>})>>

extractOscSecurityGroup(row, projectName) ==
    LET id == IF row.ID # "" THEN row.ID ELSE getOscField(row.Fields, <<"ID", "id">>)
        name == IF row.Name # "" THEN row.Name ELSE getOscField(row.Fields, <<"Name", "name">>)
    IN  IF id = "" THEN <<>>
        ELSE <<Resource(id, name, ResourceTypeSecurityGroup, oscProject(row, projectName),
                        "", "", NilSlice, NoProperties)>>

extractOscSecurityGroupRule(row, projectName) ==
    LET id == IF row.ID # "" THEN row.ID ELSE getOscField(row.Fields, <<"ID", "id">>)
        parentID == IF row.ParentID # "" THEN row.ParentID
                    ELSE getOscField(row.Fields, <<"Parent ID", "parent_id">>)
        parentName == IF row.ParentName # "" THEN row.ParentName
                      ELSE getOscField(row.Fields, <<"Parent Name", "parent_name", "Name">>)
        props == IF row.RuleFields.isNil THEN NoProperties
                 ELSE {<<"direction", row.RuleFields.Direction>>,
                       <<"protocol", row.RuleFields.Protocol>>,
                       <<"port_range", row.RuleFields.PortRange>>,
                       <<"remote_ip", row.RuleFields.RemoteIP>>}
    IN  IF id = "" THEN <<>>
        ELSE <<Resource(id, "", ResourceTypeSecurityGroupRule, oscProject(row, projectName),
                        parentID, parentName, NilSlice, props)>>

\* the body of the loop of ExtractResourcesFromOsc: the switch on row.Type
extractOscRow(row, projectName) ==
    CASE row.Type = "security-group" -> extractOscSecurityGroup(row, projectName)
      [] row.Type = "security-group-rule" -> extractOscSecurityGroupRule(row, projectName)
      [] OTHER -> extractOscServer(row, projectName)

RECURSIVE extractOscRows(_, _)
extractOscRows(data, projectName) ==
    IF data = <<>> THEN <<>>
    ELSE extractOscRow(Head(data), projectName) \o extractOscRows(Tail(data), projectName)

ExtractResourcesFromOsc(oscOutput, projectName) ==
    IF oscOutput.isNil THEN <<>> ELSE extractOscRows(oscOutput.Data, projectName)

(***************************************************************************)
(* The state extractor (terraform show -json -> []Resource).               *)
(***************************************************************************)
TerraformTypeComputeInstance == "openstack_compute_instance_v2"
TerraformTypeSecurityGroup == "openstack_networking_secgroup_v2"
TerraformTypeSecGroupRule == "openstack_networking_secgroup_rule_v2"
TerraformTypeBlockVolume == "openstack_blockstorage_volume_v3"

\* the values of a map[string]any after json decoding: a string, a number, a list
StringValue(s) == [type |-> "string", s |-> s, n |-> 0, list |-> <<>>]

NumberValue(n) == [type |-> "number", s |-> "", n |-> n, list |-> <<>>]

ListValue(list) == [type |-> "list", s |-> "", n |-> 0, list |-> list]

TerraformResource(address, type, values) ==
    [Address |-> address, Type |-> type, Values |-> values]

\* a module of the tree: the root module or a child module
TerraformModule(resources, childModules) ==
    [isNil |-> FALSE, Resources |-> resources, ChildModules |-> childModules]

\* a nil *TerraformRootModule
NilRootModule == [isNil |-> TRUE, Resources |-> <<>>, ChildModules |-> <<>>]

TerraformValues(rootModule) == [isNil |-> FALSE, RootModule |-> rootModule]

\* a nil *TerraformValues
NilTerraformValues == [isNil |-> TRUE, RootModule |-> NilRootModule]

TerraformState(values) == [isNil |-> FALSE, Values |-> values]

\* a nil *TerraformState
NilTerraformState == [isNil |-> TRUE, Values |-> NilTerraformValues]

getStringValue(m, key) ==
    IF key \in DOMAIN m /\ m[key].type = "string" THEN m[key].s ELSE ""

\* json numbers of the model are whole, so int(n) is n
getIntValue(m, key) ==
    IF key \in DOMAIN m /\ m[key].type = "number" THEN m[key].n ELSE 0

\* fmt.Sprintf("%d", n)
DigitText == <<"0", "1", "2", "3", "4", "5", "6", "7", "8", "9">>

RECURSIVE NatText(_)
NatText(n) ==
    IF n < 10 THEN DigitText[n + 1]
    ELSE NatText(n \div 10) \o DigitText[(n % 10) + 1]

IntText(n) == IF n < 0 THEN "-" \o NatText(0 - n) ELSE NatText(n)

\* the string elements of values["security_groups"] when it is a list
stateSecurityGroups(values) ==
    IF "security_groups" \in DOMAIN values /\ values["security_groups"].type = "list"
    THEN LET strings == SelectSeq(values["security_groups"].list,
                                  LAMBDA v : v.type = "string")
         IN  IF strings = <<>> THEN NilSlice
             ELSE Slice([i \in DOMAIN strings |-> strings[i].s])
    ELSE NilSlice

\* extractServer without the test of the id
extractServer_KeepsEmptyID(tfRes, projectName) ==
    <<Resource(getStringValue(tfRes.Values, "id"), getStringValue(tfRes.Values, "name"),
               ResourceTypeServer, projectName, "", "", stateSecurityGroups(tfRes.Values),
               {<<"ip_address", getStringValue(tfRes.Values, "access_ip_v4")>>,
                <<"flavor_name", getStringValue(tfRes.Values, "flavor_name")>>,
                <<"flavor_id", getStringValue(tfRes.Values, "flavor_id")>>,
                <<"image_name", getStringValue(tfRes.Values, "image_name")>>,
                <<"power_state", getStringValue(tfRes.Values, "power_state")>>,
                <<"availability_zone", getStringValue(tfRes.Values, "availability_zone")>>})>>

\* the three extractors return a *Resource: <<>> for nil, <<r>> for &r
extractServer(tfRes, projectName) ==
    LET id == getStringValue(tfRes.Values, "id")
        name == getStringValue(tfRes.Values, "name")
    IN  IF id = "" THEN <<>>
        ELSE <<Resource(id, name, ResourceTypeServer, projectName, "", "",
                        stateSecurityGroups(tfRes.Values),
                        {<<"ip_address", getStringValue(tfRes.Values, "access_ip_v4")>>,
                         <<"flavor_name", getStringValue(tfRes.Values, "flavor_name")>>,
                         <<"flavor_id", getStringValue(tfRes.Values, "flavor_id")>>,
                         <<"image_name", getStringValue(tfRes.Values, "image_name")>>,
                         <<"power_state", getStringValue(tfRes.Values, "power_state")>>,
                         <<"availability_zone",
                           getStringValue(tfRes.Values, "availability_zone")>>})>>

extractSecurityGroup(tfRes, projectName) ==
    LET id == getStringValue(tfRes.Values, "id")
        name == getStringValue(tfRes.Values, "name")
    IN  IF id = "" THEN <<>>
        ELSE <<Resource(id, name, ResourceTypeSecurityGroup, projectName, "", "", NilSlice,
                        {<<"description", getStringValue(tfRes.Values, "description")>>})>>

extractSecurityGroupRule(tfRes, projectName) ==
    LET id == getStringValue(tfRes.Values, "id")
        secGroupID == getStringValue(tfRes.Values, "security_group_id")
        portMin == getIntValue(tfRes.Values, "port_range_min")
        portMax == getIntValue(tfRes.Values, "port_range_max")
        props == {<<"direction", getStringValue(tfRes.Values, "direction")>>,
                  <<"ethertype", getStringValue(tfRes.Values, "ethertype")>>,
                  <<"protocol", getStringValue(tfRes.Values, "protocol")>>,
                  <<"remote_ip_prefix", getStringValue(tfRes.Values, "remote_ip_prefix")>>,
                  <<"remote_group_id", getStringValue(tfRes.Values, "remote_group_id")>>}
                 \cup
                 (IF portMin > 0 \/ portMax > 0
                  THEN {<<"port_range", IntText(portMin) \o ":" \o IntText(portMax)>>}
                  ELSE {})
    IN  IF id = "" THEN <<>>
        ELSE <<Resource(id, "", ResourceTypeSecurityGroupRule, projectName, secGroupID, "",
                        NilSlice, props)>>

\* the body of the loop of extractResourcesFromModule: the switch on tfRes.Type
extractTerraformResource(tfRes, projectName) ==
    CASE tfRes.Type = TerraformTypeComputeInstance -> extractServer(tfRes, projectName)
      [] tfRes.Type = TerraformTypeSecurityGroup -> extractSecurityGroup(tfRes, projectName)
      [] tfRes.Type = TerraformTypeSecGroupRule -> extractSecurityGroupRule(tfRes, projectName)
      [] OTHER -> <<>>

RECURSIVE extractResourcesFromModule(_, _)
extractResourcesFromModule(tfResources, projectName) ==
    IF tfResources = <<>> THEN <<>>
    ELSE extractTerraformResource(Head(tfResources), projectName)
         \o extractResourcesFromModule(Tail(tfResources), projectName)

\* extractResourcesFromChildModules as if it visited a module's children
\* before the module's own resources
RECURSIVE extractResourcesFromChildModules_ChildrenFirst(_, _)
extractResourcesFromChildModules_ChildrenFirst(modules, projectName) ==
    IF modules = <<>> THEN <<>>
    ELSE extractResourcesFromChildModules_ChildrenFirst(Head(modules).ChildModules, projectName)
         \o extractResourcesFromModule(Head(modules).Resources, projectName)
         \o extractResourcesFromChildModules_ChildrenFirst(Tail(modules), projectName)

RECURSIVE extractResourcesFromChildModules(_, _)
extractResourcesFromChildModules(modules, projectName) ==
    IF modules = <<>> THEN <<>>
    ELSE extractResourcesFromModule(Head(modules).Resources, projectName)
         \o extractResourcesFromChildModules(Head(modules).ChildModules, projectName)
         \o extractResourcesFromChildModules(Tail(modules), projectName)

ExtractResourcesFromTerraform(tfState, projectName) ==
    IF tfState.isNil \/ tfState.Values.isNil \/ tfState.Values.RootModule.isNil
    THEN <<>>
    ELSE extractResourcesFromModule(tfState.Values.RootModule.Resources, projectName)
         \o extractResourcesFromChildModules(tfState.Values.RootModule.ChildModules,
                                             projectName)

(***************************************************************************)
(* What a specification leaves unused.                                     *)
(***************************************************************************)
NoOutput ==
    [call |-> "none", projectCount |-> 0, format |-> "", lines |-> <<>>, json |-> <<>>]

\* no directory tree: the specification does not read one
NoRoot == [status |-> "none", entries |-> <<>>]

\* no extractor input
NoDoc == [isNil |-> TRUE, Data |-> <<>>]

(***************************************************************************)
(* The directory loaders (LoadTerraformStateFromDir, LoadTruthFromDir).    *)
(***************************************************************************)
\* File names are sequences of characters.
UpperLetters ==
    <<"A", "B", "C", "D", "E", "F", "G", "H", "I", "J", "K", "L", "M",
      "N", "O", "P", "Q", "R", "S", "T", "U", "V", "W", "X", "Y", "Z">>

LowerLetters ==
    <<"a", "b", "c", "d", "e", "f", "g", "h", "i", "j", "k", "l", "m",
      "n", "o", "p", "q", "r", "s", "t", "u", "v", "w", "x", "y", "z">>

\* strings.ToLower
ToLower(name) ==
    [i \in DOMAIN name |->
        IF \E k \in DOMAIN UpperLetters : UpperLetters[k] = name[i]
        THEN LowerLetters[CHOOSE k \in DOMAIN UpperLetters : UpperLetters[k] = name[i]]
        ELSE name[i]]

\* strings.HasSuffix
HasSuffix(name, suffix) ==
    /\ Len(name) >= Len(suffix)
    /\ SubSeq(name, Len(name) - Len(suffix) + 1, Len(name)) = suffix

JsonSuffix == <<".", "j", "s", "o", "n">>

\* An entry of a state or truth directory: a subdirectory, or a file that
\* Parse...File can or cannot open and decode into the document `content`.
SubDirectory(name) == [Name |-> name, IsDir |-> TRUE, parses |-> FALSE, content |-> NoDoc]

UnparseableFile(name) == [Name |-> name, IsDir |-> FALSE, parses |-> FALSE, content |-> NoDoc]

ParseableFile(name, content) ==
    [Name |-> name, IsDir |-> FALSE, parses |-> TRUE, content |-> content]

\* a directory os.ReadDir lists, and one it cannot list
Directory(entries) == [listable |-> TRUE, entries |-> entries]

UnlistableDirectory == [listable |-> FALSE, entries |-> <<>>]

\* what a loader returns: ([]Resource, error)
Loaded(resources) == [failed |-> FALSE, resources |-> resources]

LoadFailed == [failed |-> TRUE, resources |-> <<>>]

\* the loop of LoadTerraformStateFromDir
RECURSIVE loadStateEntries(_, _)
loadStateEntries(entries, projectName) ==
    IF entries = <<>> THEN <<>>
    ELSE LET entry == Head(entries)
             rest == loadStateEntries(Tail(entries), projectName)
         IN  IF entry.IsDir THEN rest
             ELSE IF ~HasSuffix(ToLower(entry.Name), JsonSuffix) THEN rest
             ELSE IF ~entry.parses THEN rest
             ELSE ExtractResourcesFromTerraform(entry.content, projectName) \o rest

LoadTerraformStateFromDir(dir, projectName) ==
    IF ~dir.listable THEN LoadFailed
    ELSE Loaded(loadStateEntries(dir.entries, projectName))

\* the loop of LoadTruthFromDir as if a file that fails to parse ended it
RECURSIVE loadTruthEntries_StopsAtBadFile(_, _)
loadTruthEntries_StopsAtBadFile(entries, projectName) ==
    IF entries = <<>> THEN <<>>
    ELSE LET entry == Head(entries)
             rest == loadTruthEntries_StopsAtBadFile(Tail(entries), projectName)
         IN  IF entry.IsDir THEN rest
             ELSE IF ~HasSuffix(ToLower(entry.Name), JsonSuffix) THEN rest
             ELSE IF ~entry.parses THEN <<>>
             ELSE ExtractResourcesFromOsc(entry.content, projectName) \o rest

\* the loop of LoadTruthFromDir
RECURSIVE loadTruthEntries(_, _)
loadTruthEntries(entries, projectName) ==
    IF entries = <<>> THEN <<>>
    ELSE LET entry == Head(entries)
             rest == loadTruthEntries(Tail(entries), projectName)
         IN  IF entry.IsDir THEN rest
             ELSE IF ~HasSuffix(ToLower(entry.Name), JsonSuffix) THEN rest
             ELSE IF ~entry.parses THEN rest
             ELSE ExtractResourcesFromOsc(entry.content, projectName) \o rest

LoadTruthFromDir(dir, projectName) ==
    IF ~dir.listable THEN LoadFailed
    ELSE Loaded(loadTruthEntries(dir.entries, projectName))

(***************************************************************************)
(* output.go: the formatter (NewDriftFormatter, FormatReport,              *)
(* PrintNoDrift).  What is written is kept as lines of cells (the columns  *)
(* of a table or CSV row; a plain line has one cell) and, for JSON, as the *)
(* encoded document.                                                       *)
(***************************************************************************)
FormatTable == "table"
FormatJSON == "json"
FormatCSV == "csv"

\* --output values are sequences of characters, as file names are
NewDriftFormatter(format) ==
    LET lower == ToLower(format)
    IN IF lower = <<"j", "s", "o", "n">> THEN FormatJSON
       ELSE IF lower = <<"c", "s", "v">> THEN FormatCSV
       ELSE FormatTable

Written(lines, json) == [lines |-> lines, json |-> json]

RECURSIVE Join(_, _)
\* strings.Join
Join(parts, sep) ==
    IF parts = <<>> THEN ""
    ELSE IF Len(parts) = 1 THEN parts[1]
    ELSE parts[1] \o sep \o Join(Tail(parts), sep)

\* %q of a name without characters to escape
Quoted(s) == "\"" \o s \o "\""

\* the Details string a comparator or a missing-resource loop builds
detailsString(d) ==
    IF d.text # "" THEN d.text
    ELSE LET name == IF d.nameChange = <<>> THEN <<>>
                     ELSE <<"name: " \o Quoted(d.nameChange[1]) \o " -> "
                            \o Quoted(d.nameChange[2])>>
             sgChanges ==
                 (IF Len(d.added) > 0
                  THEN <<"added: [" \o Join(d.added, " ") \o "]">> ELSE <<>>)
                 \o (IF Len(d.removed) > 0
                     THEN <<"removed: [" \o Join(d.removed, " ") \o "]">> ELSE <<>>)
             sgs == IF sgChanges = <<>> THEN <<>>
                    ELSE <<"security_groups: " \o Join(sgChanges, ", ")>>
         IN Join(name \o sgs, "; ")

truncateID(id, maxLen) ==
    IF Len(id) <= maxLen THEN id ELSE SubSeq(id, 1, maxLen - 3) \o "..."

truncateString(s, maxLen) ==
    IF Len(s) <= maxLen THEN s ELSE SubSeq(s, 1, maxLen - 3) \o "..."

RECURSIVE Flatten(_)
Flatten(seqs) == IF seqs = <<>> THEN <<>> ELSE Head(seqs) \o Flatten(Tail(seqs))

\* one table row of formatTable
tableRow(project, drift) ==
    LET named == IF drift.ResourceName = "" /\ drift.ParentSG # ""
                 THEN "(rule in " \o drift.ParentSG \o ")"
                 ELSE drift.ResourceName
        name == IF named = "" THEN "(unnamed)" ELSE named
    IN <<project.ProjectName, drift.ResourceType, name, truncateID(drift.ResourceID, 12),
         drift.Status, truncateString(detailsString(drift.Details), 50)>>

TableHeader ==
    << <<"PROJECT", "RESOURCE TYPE", "NAME", "ID", "STATUS", "DETAILS">>,
       <<"-------", "-------------", "----", "--", "------", "-------">> >>

\* formatTable: the "By status" parts come in the order the range over the
\* ByStatus map visits them, so the result is a set of possible outputs
formatTable(r) ==
    LET rows == Flatten([i \in DOMAIN r.Projects |->
                    [j \in DOMAIN r.Projects[i].Drifts |->
                        tableRow(r.Projects[i], r.Projects[i].Drifts[j])]])
        summary == "Summary: " \o IntText(r.Summary.TotalProjects) \o " projects, "
                   \o IntText(r.Summary.TotalDrift) \o " drift items"
        byStatus == r.Summary.ByStatus
    IN IF r.Summary.TotalDrift > 0
       THEN {Written(TableHeader \o rows \o << <<"">>, <<summary>>,
                     <<"By status: " \o Join([k \in DOMAIN order |->
                           order[k] \o "=" \o IntText(byStatus[order[k]])], ", ")>> >>,
                     <<>>) : order \in Orders(DOMAIN byStatus)}
       ELSE {Written(TableHeader \o rows \o << <<"">>, <<summary>> >>, <<>>)}

\* encoding/json of a DiffResult: parent_sg is left out when empty
jsonDiffResult(d) ==
    LET keys == {"resource_type", "resource_name", "resource_id", "project_name",
                 "status", "details"}
                \cup (IF d.ParentSG # "" THEN {"parent_sg"} ELSE {})
    IN [k \in keys |->
          CASE k = "resource_type" -> d.ResourceType
            [] k = "resource_name" -> d.ResourceName
            [] k = "resource_id" -> d.ResourceID
            [] k = "project_name" -> d.ProjectName
            [] k = "parent_sg" -> d.ParentSG
            [] k = "status" -> d.Status
            [] k = "details" -> detailsString(d.Details)]

jsonResourceCounts(c) ==
    [servers |-> c.Servers, security_groups |-> c.SecurityGroups,
     security_group_rules |-> c.SecurityGroupRules]

jsonProjectDrift(p) ==
    [project_name |-> p.ProjectName,
     drifts |-> [j \in DOMAIN p.Drifts |-> jsonDiffResult(p.Drifts[j])],
     state_count |-> jsonResourceCounts(p.StateCount),
     truth_count |-> jsonResourceCounts(p.TruthCount)]

\* encoding/json of a DriftReport, by its json tags
jsonDriftReport(r) ==
    [projects |-> [i \in DOMAIN r.Projects |-> jsonProjectDrift(r.Projects[i])],
     summary |-> [total_projects |-> r.Summary.TotalProjects,
                  total_drift |-> r.Summary.TotalDrift,
                  by_status |-> r.Summary.ByStatus,
                  by_type |-> r.Summary.ByType]]

formatJSON(r) == {Written(<<>>, <<jsonDriftReport(r)>>)}

CSVHeader == <<"project", "resource_type", "name", "id", "parent_sg", "status", "details">>

csvRow(project, drift) ==
    <<project.ProjectName, drift.ResourceType, drift.ResourceName, drift.ResourceID,
      drift.ParentSG, drift.Status, detailsString(drift.Details)>>

formatCSV(r) ==
    {Written(<<CSVHeader>>
             \o Flatten([i \in DOMAIN r.Projects |->
                   [j \in DOMAIN r.Projects[i].Drifts |->
                       csvRow(r.Projects[i], r.Projects[i].Drifts[j])]]),
             <<>>)}

\* the outputs FormatReport may write
FormatReport(format, r) ==
    IF format = FormatJSON THEN formatJSON(r)
    ELSE IF format = FormatCSV THEN formatCSV(r)
    ELSE formatTable(r)

\* the no-drift path as if it rendered the report it is not given
PrintNoDrift_RendersEmptyTable(format, projectCount) ==
    IF format = FormatJSON
    THEN formatJSON([NewDriftReport EXCEPT !.Summary.TotalProjects = projectCount])
    ELSE IF format = FormatCSV THEN {Written(<<CSVHeader>>, <<>>)}
    ELSE formatTable([NewDriftReport EXCEPT !.Summary.TotalProjects = projectCount])

\* the outputs PrintNoDrift may write (one)
PrintNoDrift(format, projectCount) ==
    IF format = FormatJSON
    THEN formatJSON([NewDriftReport EXCEPT !.Summary.TotalProjects = projectCount])
    ELSE IF format = FormatCSV THEN {Written(<<CSVHeader>>, <<>>)}
    ELSE {Written(<< <<"No drift detected across " \o IntText(projectCount)
                       \o " projects.">> >>, <<>>)}

(***************************************************************************)
(* Inputs.                                                                 *)
(***************************************************************************)
SeqsUpTo(S, n) == UNION {[1..k -> S] : k \in 0..n}

IDs == {"id-1", "id-2"}

Names == {"web1", "web2"}

SGNames == {"default", "web"}

SGLists == {NilSlice} \cup {Slice(e) : e \in SeqsUpTo(SGNames, MaxSG)}

PropertyBags == {NoProperties, {<<"ip_address", "10.0.0.5">>}}

\* The resources of the lists of up to MaxRes resources in all, of every kind,
\* with repeated IDs: what presence matching depends on.
PlainResources ==
    {Resource(id, name, type, "proj1", "", "", NilSlice, NoProperties) :
        id \in IDs, name \in Names, type \in ResourceTypes}

\* The servers of the lists of up to MaxRes servers in all over three IDs:
\* what the order of the results of one kind depends on.
ServersByID ==
    {Resource(id, name, ResourceTypeServer, "proj1", "", "", NilSlice, NoProperties) :
        id \in IDs \cup {"id-3"}, name \in Names}

\* The resources of the one-to-one comparisons: the same ID on each side,
\* every field free within the shape its kind has (security groups on servers, a parent on rules): what
\* the property comparators depend on.
DetailedResources ==
    {Resource("id-1", name, ResourceTypeServer, project, "", "", sgs, props) :
        name \in Names, project \in {"proj1", "proj2"}, sgs \in SGLists,
        props \in PropertyBags}
    \cup
    {Resource("id-1", name, ResourceTypeSecurityGroup, project, "", "", NilSlice, props) :
        name \in Names, project \in {"proj1", "proj2"}, props \in PropertyBags}
    \cup
    {Resource("id-1", name, ResourceTypeSecurityGroupRule, project, parentID, parentName,
              NilSlice, props) :
        name \in Names, project \in {"proj1", "proj2"}, parentID \in {"sg-1", "sg-2"},
        parentName \in {"", "web"}, props \in PropertyBags}

\* The directory names os.ReadDir can list, in its (sorted) order.
ProjectDirNames == <<"proj1", "proj2", "proj3", "proj4">>

\* The type tags of the rows: none, the three kinds, and a kind that is none
\* of the three.
OscTypeTags == {"", "server", "security-group", "security-group-rule", "volume"}

\* The legacy column labels the extractor of each kind probes, per logical
\* field, in the order it probes them.
Aliases(kind, field) ==
    CASE field = "project" -> <<"Project Name", "project_name", "project">>
      [] kind = ResourceTypeServer /\ field = "id" -> <<"Server ID", "server_id", "id">>
      [] kind = ResourceTypeServer /\ field = "name" -> <<"Server Name", "server_name", "name">>
      [] kind = ResourceTypeServer /\ field = "address" ->
             <<"IPv4 Address", "ipv4_address", "ip_address">>
      [] kind = ResourceTypeSecurityGroup /\ field = "id" -> <<"ID", "id">>
      [] kind = ResourceTypeSecurityGroup /\ field = "name" -> <<"Name", "name">>
      [] kind = ResourceTypeSecurityGroupRule /\ field = "id" -> <<"ID", "id">>
      [] kind = ResourceTypeSecurityGroupRule /\ field = "parentID" -> <<"Parent ID", "parent_id">>
      [] kind = ResourceTypeSecurityGroupRule /\ field = "parentName" ->
             <<"Parent Name", "parent_name", "Name">>
      [] OTHER -> <<>>

\* the logical fields the extractor of a kind reads
FieldsOfKind(kind) ==
    CASE kind = ResourceTypeServer -> {"id", "name", "project", "address"}
      [] kind = ResourceTypeSecurityGroup -> {"id", "name", "project"}
      [] kind = ResourceTypeSecurityGroupRule -> {"id", "parentID", "parentName", "project"}

LogicalFields == {"id", "name", "project", "address", "parentID", "parentName"}

\* the extractor a row of this tag is handed to
KindOfTag(tag) ==
    CASE tag = "security-group" -> ResourceTypeSecurityGroup
      [] tag = "security-group-rule" -> ResourceTypeSecurityGroupRule
      [] OTHER -> ResourceTypeServer

\* a value of the normalized format for each logical field
TopValue ==
    [id |-> "id-1", name |-> "web1", project |-> "proj2", address |-> "10.0.0.5",
     parentID |-> "sg-1", parentName |-> "web"]

\* a value of the legacy format, one per column label
LegacyValue(key) == "legacy " \o key

\* what a top-level field can hold: nothing, the placeholder, a value
TopChoices == {"absent", "n/a", "value"}

\* what a legacy column can hold: no key, the empty string, the placeholder, a value
LegacyChoices == {"absent", "empty", "n/a", "value"}

\* the map with the key/value pairs of `pairs` (no key twice)
MapOf(pairs) ==
    [k \in {p[1] : p \in pairs} |-> (CHOOSE p \in pairs : p[1] = k)[2]]

\* A row of tag `tag` in which the logical field `focus` holds `topChoice` at top
\* level and legacyChoice[i] under its i-th legacy label, and every other
\* field of the kind comes from where `others` says: "top" or "legacy".
FocusRow(tag, focus, topChoice, legacyChoice, others) ==
    LET kind == KindOfTag(tag)
        top(f) ==
            IF f = focus
            THEN CASE topChoice = "absent" -> ""
                   [] topChoice = "n/a" -> "n/a"
                   [] OTHER -> TopValue[f]
            ELSE IF others = "top" /\ f \in FieldsOfKind(kind) THEN TopValue[f] ELSE ""
        focusPairs ==
            {<<Aliases(kind, focus)[i],
               CASE legacyChoice[i] = "empty" -> ""
                 [] legacyChoice[i] = "n/a" -> "n/a"
                 [] OTHER -> LegacyValue(Aliases(kind, focus)[i])>> :
                i \in {j \in DOMAIN legacyChoice : legacyChoice[j] # "absent"}}
        otherPairs ==
            IF others = "top" THEN {}
            ELSE {<<Aliases(kind, f)[1], LegacyValue(Aliases(kind, f)[1])>> :
                    f \in FieldsOfKind(kind) \ {focus}}
    IN  OscRow(tag, top("id"), top("name"), top("project"), top("address"),
               IF kind = ResourceTypeServer THEN Slice(<<"default">>) ELSE NilSlice,
               top("parentID"), top("parentName"),
               IF kind = ResourceTypeSecurityGroupRule /\ others = "top"
               THEN OscRuleFields("ingress", "tcp", "22", "0.0.0.0/0")
               ELSE NilRuleFields,
               MapOf(focusPairs \cup otherPairs))

\* The rows of the documents of several rows: every tag, with and without an id.
SimpleRows ==
    {OscRow(tag, id, "web1", "proj2", "", NilSlice, "", "", NilRuleFields, NoFields) :
        tag \in OscTypeTags, id \in {"", "id-1"}}

\* The records of the module trees: a server and a security group with ids,
\* a server without an id, and a record of a kind that is none of the three.
TfRecordChoices ==
    {TerraformResource("openstack_compute_instance_v2.web1", TerraformTypeComputeInstance,
                       MapOf({<<"id", StringValue("id-1")>>, <<"name", StringValue("web1")>>})),
     TerraformResource("openstack_networking_secgroup_v2.web", TerraformTypeSecurityGroup,
                       MapOf({<<"id", StringValue("sg-1")>>, <<"name", StringValue("web")>>})),
     TerraformResource("openstack_compute_instance_v2.noid", TerraformTypeComputeInstance,
                       MapOf({<<"name", StringValue("web2")>>})),
     TerraformResource("openstack_blockstorage_volume_v3.data", TerraformTypeBlockVolume,
                       MapOf({<<"id", StringValue("vol-1")>>, <<"name", StringValue("data")>>}))}

\* what values["id"] can be: no key, "", a string, a number
TfIDChoices == {"absent", "empty", "string", "number"}

TfKinds ==
    {TerraformTypeComputeInstance, TerraformTypeSecurityGroup, TerraformTypeSecGroupRule,
     TerraformTypeBlockVolume}

\* what values["port_range_min"] and values["port_range_max"] hold (0: no key)
TfPorts == {0, 22, 443}

\* A record of kind `type` with every value its extractor reads: the id as
\* `idChoice` says, a security group list with a string and a number.
DetailedTfRecord(type, idChoice, portMin, portMax) ==
    LET idPairs ==
            CASE idChoice = "absent" -> {}
              [] idChoice = "empty" -> {<<"id", StringValue("")>>}
              [] idChoice = "string" -> {<<"id", StringValue("id-1")>>}
              [] OTHER -> {<<"id", NumberValue(7)>>}
        portPairs ==
            (IF portMin = 0 THEN {} ELSE {<<"port_range_min", NumberValue(portMin)>>})
            \cup (IF portMax = 0 THEN {} ELSE {<<"port_range_max", NumberValue(portMax)>>})
    IN  TerraformResource("res.detailed", type,
            MapOf(idPairs \cup portPairs \cup
                  {<<"name", StringValue("web1")>>,
                   <<"security_groups",
                     ListValue(<<StringValue("default"), NumberValue(1), StringValue("web")>>)>>,
                   <<"access_ip_v4", StringValue("10.0.0.5")>>,
                   <<"flavor_name", StringValue("m1.small")>>,
                   <<"description", StringValue("web servers")>>,
                   <<"security_group_id", StringValue("sg-1")>>,
                   <<"direction", StringValue("ingress")>>,
                   <<"protocol", StringValue("tcp")>>}))

\* the integers of a set in increasing order
RECURSIVE SortedSeq(_)
SortedSeq(S) ==
    IF S = {} THEN <<>>
    ELSE LET m == CHOOSE x \in S : \A y \in S : x <= y
         IN  <<m>> \o SortedSeq(S \ {m})

\* depths lists the nesting depth of the modules of a tree in the order the
\* document writes them: the root first, each module before its children
ValidDepths(depths) ==
    /\ depths[1] = 0
    /\ \A i \in 2..Len(depths) : depths[i] >= 1 /\ depths[i] <= depths[i - 1] + 1

\* the module written i-th, with the records owner assigns to it and its child modules
RECURSIVE BuildModule(_, _, _, _)
BuildModule(i, depths, recs, owner) ==
    LET mine == SortedSeq({j \in DOMAIN recs : owner[j] = i})
        kids == SortedSeq({j \in (i + 1)..Len(depths) :
                              /\ depths[j] = depths[i] + 1
                              /\ \A m \in (i + 1)..(j - 1) : depths[m] > depths[i]})
    IN  TerraformModule([m \in DOMAIN mine |-> recs[mine[m]]],
                        [c \in DOMAIN kids |-> BuildModule(kids[c], depths, recs, owner)])

\* The file names of a state or truth directory, in os.ReadDir's order.
FileNames ==
    <<<<"a", ".", "j", "s", "o", "n">>,
      <<"b", ".", "J", "S", "O", "N">>,
      <<"c", ".", "t", "x", "t">>,
      <<"d", ".", "j", "s", "o", "n">>>>

\* the id of the one server each file describes
FileIDs == <<"id-a", "id-b", "id-c", "id-d">>

\* the osc output and the Terraform state the k-th file holds when it parses
TruthFileContent(k) ==
    OscOutput(<<OscRow("server", FileIDs[k], "web1", "", "", NilSlice, "", "",
                       NilRuleFields, NoFields)>>)

StateFileContent(k) ==
    TerraformState(TerraformValues(TerraformModule(
        <<TerraformResource("openstack_compute_instance_v2.web1", TerraformTypeComputeInstance,
                            MapOf({<<"id", StringValue(FileIDs[k])>>,
                                   <<"name", StringValue("web1")>>}))>>,
        <<>>)))

\* what the directory holds under the k-th name
FileKinds == {"none", "directory", "unparseable", "parseable"}

\* the directory holding, under the k-th name, what kinds[k] says
DirectoryOf(kinds, side) ==
    LET present == SortedSeq({k \in DOMAIN FileNames : kinds[k] # "none"})
    IN  Directory([i \in DOMAIN present |->
            LET k == present[i]
            IN  CASE kinds[k] = "directory" -> SubDirectory(FileNames[k])
                  [] kinds[k] = "unparseable" -> UnparseableFile(FileNames[k])
                  [] OTHER -> ParseableFile(FileNames[k],
                                  IF side = "state" THEN StateFileContent(k)
                                  ELSE TruthFileContent(k))])

\* The records of the files of a project: the truth records were exported
\* under another project's name, at top level and in the legacy map.
ForeignProject == "proj9"

TruthServerRow(id, name, sgs) ==
    OscRow("server", id, name, ForeignProject, "10.0.0.5", Slice(sgs), "", "", NilRuleFields,
           NoFields)

TruthSecurityGroupRow(id, name) ==
    OscRow("security-group", id, name, ForeignProject, "", NilSlice, "", "", NilRuleFields,
           NoFields)

TruthRuleRow(id, parentID) ==
    OscRow("security-group-rule", id, "", "", "", NilSlice, parentID, "", NilRuleFields,
           MapOf({<<"Project Name", ForeignProject>>}))

StateServerRecord(id, name, sgs) ==
    TerraformResource("openstack_compute_instance_v2." \o name, TerraformTypeComputeInstance,
                      MapOf({<<"id", StringValue(id)>>, <<"name", StringValue(name)>>,
                             <<"security_groups",
                               ListValue([i \in DOMAIN sgs |-> StringValue(sgs[i])])>>}))

StateSecurityGroupRecord(id, name) ==
    TerraformResource("openstack_networking_secgroup_v2." \o name, TerraformTypeSecurityGroup,
                      MapOf({<<"id", StringValue(id)>>, <<"name", StringValue(name)>>}))

TruthFile(k, rows) == ParseableFile(FileNames[k], OscOutput(rows))

StateFile(k, records) ==
    ParseableFile(FileNames[k],
                  TerraformState(TerraformValues(TerraformModule(records, <<>>))))

\* The state directories a project may have: empty, one file, and two files
\* that both describe one server.
ProjectStateDirs ==
    {Directory(<<>>),
     Directory(<<StateFile(1, <<StateServerRecord("id-1", "web1", <<"default">>),
                                StateSecurityGroupRecord("sg-1", "web")>>)>>),
     Directory(<<StateFile(1, <<StateServerRecord("id-1", "web1", <<"default">>),
                                StateServerRecord("id-2", "web1", <<"default">>)>>),
                 StateFile(4, <<StateServerRecord("id-2", "web2", <<"default">>)>>)>>)}

\* The truth directories a project may have.
ProjectTruthDirs ==
    {Directory(<<>>),
     Directory(<<TruthFile(1, <<TruthServerRow("id-1", "web1", <<"default">>),
                                TruthSecurityGroupRow("sg-1", "web")>>)>>),
     Directory(<<TruthFile(1, <<TruthServerRow("id-1", "web2", <<"default">>)>>),
                 TruthFile(2, <<TruthRuleRow("rule-1", "sg-1")>>)>>),
     Directory(<<TruthFile(1, <<TruthServerRow("id-1", "web1", <<"default", "web">>)>>)>>)}

\* What the loaders can return for the project directory `name`.
LoadedStates(name) ==
    {LoadTerraformStateFromDir(dir, name).resources : dir \in ProjectStateDirs}

LoadedTruths(name) ==
    {LoadTruthFromDir(dir, name).resources : dir \in ProjectTruthDirs}

(***************************************************************************)
(* The comparison alone.                                                   *)
(***************************************************************************)

InitCompare ==
    /\ pc = "input"
    /\ \/ \E k \in 0..MaxRes, j \in 0..MaxRes :
              /\ k + j <= MaxRes
              /\ state \in [1..k -> PlainResources]
              /\ truth \in [1..j -> PlainResources]
       \/ \E k \in 0..MaxRes, j \in 0..MaxRes :
              /\ k + j <= MaxRes
              /\ state \in [1..k -> ServersByID]
              /\ truth \in [1..j -> ServersByID]
       \/ \E s \in DetailedResources, t \in DetailedResources :
              /\ state = <<s>>
              /\ truth = <<t>>
    /\ diffs = <<>>
    /\ projects = <<>>
    /\ idx = 1
    /\ report = NewDriftReport
    /\ resourceFilter = "all"
    /\ statusFilter = "all"
    /\ filtered = NewDriftReport
    /\ output = NoOutput
    /\ exitCode = 0
    /\ root = NoRoot
    /\ doc = NoDoc
    /\ projectArg = ""
    /\ extracted = <<>>
    /\ err = FALSE

\* diffs := CompareResources(state, truth)
Compare ==
    /\ pc = "input"
    /\ diffs' \in CompareResources(state, truth)
    /\ pc' = "compared"
    /\ UNCHANGED <<state, truth, projects, idx, report, resourceFilter, statusFilter,
                   filtered, output, exitCode, root>>
    /\ UNCHANGED extractVars

NextCompare == Compare

SpecCompare == InitCompare /\ [][NextCompare]_vars

(***************************************************************************)
(* The truth extractor alone.                                              *)
(***************************************************************************)
InitTruth ==
    /\ pc = "truthInput"
    /\ \/ \E tag \in OscTypeTags, topChoice \in TopChoices, others \in {"top", "legacy"} :
            \E focus \in FieldsOfKind(KindOfTag(tag)) :
              \E legacyChoice \in
                    [1..Len(Aliases(KindOfTag(tag), focus)) -> LegacyChoices] :
                 doc = OscOutput(<<FocusRow(tag, focus, topChoice, legacyChoice, others)>>)
       \/ \E n \in 0..MaxRows : \E data \in [1..n -> SimpleRows] : doc = OscOutput(data)
       \/ doc = NilOscOutput
    /\ projectArg \in {"", "proj1"}
    /\ extracted = <<>>
    /\ err = FALSE
    /\ state = <<>>
    /\ truth = <<>>
    /\ diffs = <<>>
    /\ projects = <<>>
    /\ idx = 1
    /\ report = NewDriftReport
    /\ resourceFilter = "all"
    /\ statusFilter = "all"
    /\ filtered = NewDriftReport
    /\ output = NoOutput
    /\ exitCode = 0
    /\ root = NoRoot

\* extracted := ExtractResourcesFromOsc(doc, projectArg)
ExtractTruth ==
    /\ pc = "truthInput"
    /\ extracted' = ExtractResourcesFromOsc(doc, projectArg)
    /\ pc' = "extracted"
    /\ UNCHANGED <<state, truth, diffs, projects, idx, report, resourceFilter, statusFilter,
                   filtered, output, exitCode, root, doc, projectArg, err>>

NextTruth == ExtractTruth

SpecTruth == InitTruth /\ [][NextTruth]_vars

(***************************************************************************)
(* The state extractor alone.                                              *)
(***************************************************************************)
InitState ==
    /\ pc = "stateInput"
    /\ \/ /\ \E n \in 1..MaxModules : \E depths \in [1..n -> 0..(n - 1)] :
               /\ ValidDepths(depths)
               /\ \E k \in 0..MaxTfRes :
                    \E recs \in [1..k -> TfRecordChoices], owner \in [1..k -> 1..n] :
                       /\ \A j \in 2..k : owner[j - 1] <= owner[j]
                       /\ doc = TerraformState(TerraformValues(
                                    BuildModule(1, depths, recs, owner)))
          /\ projectArg = "proj1"
       \/ /\ \E type \in TfKinds, idChoice \in TfIDChoices, portMin \in TfPorts,
                portMax \in TfPorts :
               doc = TerraformState(TerraformValues(TerraformModule(
                         <<DetailedTfRecord(type, idChoice, portMin, portMax)>>, <<>>)))
          /\ projectArg \in {"", "proj1"}
       \/ /\ doc \in {NilTerraformState, TerraformState(NilTerraformValues),
                      TerraformState(TerraformValues(NilRootModule))}
          /\ projectArg = "proj1"
    /\ extracted = <<>>
    /\ err = FALSE
    /\ state = <<>>
    /\ truth = <<>>
    /\ diffs = <<>>
    /\ projects = <<>>
    /\ idx = 1
    /\ report = NewDriftReport
    /\ resourceFilter = "all"
    /\ statusFilter = "all"
    /\ filtered = NewDriftReport
    /\ output = NoOutput
    /\ exitCode = 0
    /\ root = NoRoot

\* extracted := ExtractResourcesFromTerraform(doc, projectArg)
ExtractState ==
    /\ pc = "stateInput"
    /\ extracted' = ExtractResourcesFromTerraform(doc, projectArg)
    /\ pc' = "extracted"
    /\ UNCHANGED <<state, truth, diffs, projects, idx, report, resourceFilter, statusFilter,
                   filtered, output, exitCode, root, doc, projectArg, err>>

NextState == ExtractState

SpecState == InitState /\ [][NextState]_vars

(***************************************************************************)
(* The two extractors side by side.                                        *)
(***************************************************************************)
InitExtract == InitTruth \/ InitState

NextExtract ==
    \/ ExtractTruth
    \/ ExtractState

SpecExtract == InitExtract /\ [][NextExtract]_vars

(***************************************************************************)
(* The directory loaders alone.                                            *)
(***************************************************************************)
InitLoad ==
    /\ pc \in {"stateDir", "truthDir"}
    /\ \/ \E kinds \in [DOMAIN FileNames -> FileKinds] :
            doc = DirectoryOf(kinds, IF pc = "stateDir" THEN "state" ELSE "truth")
       \/ doc = UnlistableDirectory
    /\ projectArg = "proj1"
    /\ extracted = <<>>
    /\ err = FALSE
    /\ state = <<>>
    /\ truth = <<>>
    /\ diffs = <<>>
    /\ projects = <<>>
    /\ idx = 1
    /\ report = NewDriftReport
    /\ resourceFilter = "all"
    /\ statusFilter = "all"
    /\ filtered = NewDriftReport
    /\ output = NoOutput
    /\ exitCode = 0
    /\ root = NoRoot

\* extracted, err := LoadTerraformStateFromDir(doc, projectArg)
LoadState ==
    /\ pc = "stateDir"
    /\ extracted' = LoadTerraformStateFromDir(doc, projectArg).resources
    /\ err' = LoadTerraformStateFromDir(doc, projectArg).failed
    /\ pc' = "stateLoaded"
    /\ UNCHANGED <<state, truth, diffs, projects, idx, report, resourceFilter, statusFilter,
                   filtered, output, exitCode, root, doc, projectArg>>

\* extracted, err := LoadTruthFromDir(doc, projectArg)
LoadTruth ==
    /\ pc = "truthDir"
    /\ extracted' = LoadTruthFromDir(doc, projectArg).resources
    /\ err' = LoadTruthFromDir(doc, projectArg).failed
    /\ pc' = "truthLoaded"
    /\ UNCHANGED <<state, truth, diffs, projects, idx, report, resourceFilter, statusFilter,
                   filtered, output, exitCode, root, doc, projectArg>>

NextLoad ==
    \/ LoadState
    \/ LoadTruth

SpecLoad == InitLoad /\ [][NextLoad]_vars

(***************************************************************************)
(* One run of "osc drift check".                                           *)
(***************************************************************************)
\* What the file system holds at <project>/state or <project>/truth: nothing
\* that is a directory, a directory, or a directory os.ReadDir cannot list.
DirStatuses == {"absent", "dir", "unlistable"}

\* an entry of the projects directory: a plain file or a directory
FileEntry(name) == [name |-> name, isDir |-> FALSE, state |-> "absent", truth |-> "absent"]

DirEntry(name, stateDir, truthDir) ==
    [name |-> name, isDir |-> TRUE, state |-> stateDir, truth |-> truthDir]

EntriesNamed(name) ==
    {FileEntry(name)} \cup {DirEntry(name, sd, td) : sd \in DirStatuses, td \in DirStatuses}

\* The projects path: missing (os.Stat fails), a plain file, a directory
\* os.ReadDir cannot list, or a directory with its entries in ReadDir's order.
RootStatuses == {"missing", "file", "unreadable", "dir"}

\* loader.go dirExists: os.Stat succeeds and IsDir
dirExists(status) == status \in {"dir", "unlistable"}

\* DiscoverProjects as if every subdirectory were a project
DiscoveredProjects_AllDirs(r) ==
    SelectSeq(r.entries, LAMBDA e : e.isDir)

\* the []ProjectDir DiscoverProjects builds from the entries of the directory
DiscoveredProjects(r) ==
    SelectSeq(r.entries, LAMBDA e : e.isDir /\ (dirExists(e.state) \/ dirExists(e.truth)))

\* whether DiscoverProjects returns an error
DiscoverError(r) ==
    \/ r.status # "dir"
    \/ Len(DiscoveredProjects(r)) = 0

\* the entry of the projects directory with this name
EntryOf(name) == CHOOSE e \in {root.entries[i] : i \in DOMAIN root.entries} : e.name = name

\* LoadProject as if a missing side were an error
LoadProject_MissingFails(project) ==
    IF project.state # "dir" \/ project.truth # "dir"
    THEN {[failed |-> TRUE, state |-> <<>>, truth |-> <<>>]}
    ELSE {[failed |-> FALSE, state |-> s, truth |-> t] :
            s \in LoadedStates(project.name), t \in LoadedTruths(project.name)}

\* What LoadProject can return: each side is loaded when its directory
\* exists, and is nil otherwise; the call fails when a load fails.
LoadProject(project) ==
    IF \/ project.state = "unlistable"
       \/ project.truth = "unlistable"
    THEN {[failed |-> TRUE, state |-> <<>>, truth |-> <<>>]}
    ELSE {[failed |-> FALSE, state |-> s, truth |-> t] :
            s \in (IF dirExists(project.state) THEN LoadedStates(project.name) ELSE {<<>>}),
            t \in (IF dirExists(project.truth) THEN LoadedTruths(project.name) ELSE {<<>>})}

Init ==
    /\ pc = "discover"
    /\ \/ \E status \in RootStatuses \ {"dir"} : root = [status |-> status, entries |-> <<>>]
       \/ \E n \in 0..MaxProjects :
            \E es \in [1..n -> UNION {EntriesNamed(ProjectDirNames[i]) : i \in 1..n}] :
               /\ \A i \in 1..n : es[i].name = ProjectDirNames[i]
               /\ root = [status |-> "dir", entries |-> es]
    /\ state = <<>>
    /\ truth = <<>>
    /\ diffs = <<>>
    /\ projects = <<>>
    /\ idx = 1
    /\ report = NewDriftReport
    /\ resourceFilter \in ResourceFilters
    /\ statusFilter \in StatusFilters
    /\ filtered = NewDriftReport
    /\ output = NoOutput
    /\ exitCode = 0
    /\ doc = NoDoc
    /\ projectArg = ""
    /\ extracted = <<>>
    /\ err = FALSE

\* ProcessAllProjects: DiscoverProjects returns at least one project
DiscoverProjects ==
    /\ pc = "discover"
    /\ ~DiscoverError(root)
    /\ projects' = [i \in DOMAIN DiscoveredProjects(root) |-> DiscoveredProjects(root)[i].name]
    /\ idx' = 1
    /\ report' = NewDriftReport
    /\ pc' = "process"
    /\ UNCHANGED <<state, truth, diffs, resourceFilter, statusFilter, filtered,
                   output, exitCode, root>>
    /\ UNCHANGED extractVars

\* ProcessAllProjects: DiscoverProjects fails; runDriftCheck returns the error
\* and Execute exits with 1
DiscoverFails ==
    /\ pc = "discover"
    /\ DiscoverError(root)
    /\ pc' = "done"
    /\ output' = [NoOutput EXCEPT !.call = "error"]
    /\ exitCode' = 1
    /\ UNCHANGED <<state, truth, diffs, projects, idx, report, resourceFilter,
                   statusFilter, filtered, root>>
    /\ UNCHANGED extractVars

\* one iteration of the loop of ProcessAllProjects: ProcessProject succeeds
ProcessProject ==
    /\ pc = "process"
    /\ idx <= Len(projects)
    /\ \E loaded \in LoadProject(EntryOf(projects[idx])) :
         /\ ~loaded.failed
         /\ state' = loaded.state
         /\ truth' = loaded.truth
         /\ diffs' \in CompareResources(loaded.state, loaded.truth)
    /\ report' = AddProject(report, ProjectDrift(projects[idx], diffs',
                                                 CountResources(state'),
                                                 CountResources(truth')))
    /\ idx' = idx + 1
    /\ UNCHANGED <<pc, projects, resourceFilter, statusFilter, filtered, output, exitCode,
                   root>>
    /\ UNCHANGED extractVars

\* the iteration as if a failing project ended ProcessAllProjects with its error
ProcessProjectFails_Aborts ==
    /\ pc = "process"
    /\ idx <= Len(projects)
    /\ \E loaded \in LoadProject(EntryOf(projects[idx])) : loaded.failed
    /\ pc' = "done"
    /\ output' = [NoOutput EXCEPT !.call = "error"]
    /\ exitCode' = 1
    /\ UNCHANGED <<state, truth, diffs, projects, idx, report, resourceFilter,
                   statusFilter, filtered, root>>
    /\ UNCHANGED extractVars

\* one iteration of the loop: LoadProject fails, the project is logged and skipped
ProcessProjectFails ==
    /\ pc = "process"
    /\ idx <= Len(projects)
    /\ \E loaded \in LoadProject(EntryOf(projects[idx])) : loaded.failed
    /\ idx' = idx + 1
    /\ UNCHANGED <<pc, state, truth, diffs, projects, report, resourceFilter,
                   statusFilter, filtered, output, exitCode, root>>
    /\ UNCHANGED extractVars

\* the --output values a run is given (read only when the formatter is built)
OutputFlags == {<<"t", "a", "b", "l", "e">>, <<"J", "S", "O", "N">>, <<"c", "s", "v">>}

\* runDriftCheck after ProcessAllProjects returned: filter, render, exit.
\* With drift the process exits with 1 whether FormatReport succeeds (os.Exit(1))
\* or fails (the error returned to Execute, which exits with 1).
FilterAndRender ==
    /\ pc = "process"
    /\ idx > Len(projects)
    /\ filtered' = filterReport(report, resourceFilter, statusFilter)
    /\ \E flag \in OutputFlags :
         LET format == NewDriftFormatter(flag)
         IN IF ~HasDrift(filtered')
            THEN /\ \E w \in PrintNoDrift(format, filtered'.Summary.TotalProjects) :
                      output' = [call |-> "PrintNoDrift",
                                 projectCount |-> filtered'.Summary.TotalProjects,
                                 format |-> format, lines |-> w.lines, json |-> w.json]
                 /\ exitCode' = 0
            ELSE /\ \E w \in FormatReport(format, filtered') :
                      output' = [call |-> "FormatReport", projectCount |-> 0,
                                 format |-> format, lines |-> w.lines, json |-> w.json]
                 /\ exitCode' = 1
    /\ pc' = "done"
    /\ UNCHANGED <<state, truth, diffs, projects, idx, report, resourceFilter, statusFilter,
                   root>>
    /\ UNCHANGED extractVars

Next ==
    \/ DiscoverProjects
    \/ DiscoverFails
    \/ ProcessProject
    \/ ProcessProjectFails
    \/ FilterAndRender

Spec == Init /\ [][Next]_vars

(***************************************************************************)
(* Vocabulary of the properties.                                           *)
(***************************************************************************)
Compared == pc = "compared"

\* the IDs occurring among the resources of kind K of a list
IDsOf(list, K) == {list[i].ID : i \in {j \in DOMAIN list : list[j].Type = K}}

\* the resource a list holds for (K, id): the last one listed
LastOf(list, K, id) ==
    LET at == {i \in DOMAIN list : list[i].Type = K /\ list[i].ID = id}
    IN list[CHOOSE i \in at : \A j \in at : j <= i]

\* the positions of the DiffResults of kind K and ID id
DiffsFor(K, id) ==
    {j \in DOMAIN diffs : diffs[j].ResourceType = K /\ diffs[j].ResourceID = id}

SGSet(r) == {r.SecurityGroups.elems[i] : i \in 1..Len(r.SecurityGroups.elems)}

\* the fields the comparison of kind K tracks agree
TrackedAgree(K, s, t) ==
    CASE K = ResourceTypeServer -> s.Name = t.Name /\ SGSet(s) = SGSet(t)
      [] K = ResourceTypeSecurityGroup -> s.Name = t.Name
      [] OTHER -> TRUE

\* state and truth hold one resource each, of kind K, with the same ID
OnePair(K) ==
    /\ Len(state) = 1 /\ Len(truth) = 1
    /\ state[1].Type = K /\ truth[1].Type = K
    /\ state[1].ID = truth[1].ID

\* C1: an ID that occurs among the K-resources of exactly one of state and
\* truth has exactly one DiffResult of kind K, with status missing_in_truth
\* when it occurs only in state and missing_in_state when only in truth.
C1_Completeness ==
    Compared =>
        \A K \in ResourceTypes :
            \A id \in IDsOf(state, K) \cup IDsOf(truth, K) :
                ~(id \in IDsOf(state, K) /\ id \in IDsOf(truth, K)) =>
                    /\ Cardinality(DiffsFor(K, id)) = 1
                    /\ \A j \in DiffsFor(K, id) :
                          diffs[j].Status =
                              IF id \in IDsOf(state, K)
                              THEN StatusMissingInTruth ELSE StatusMissingInState

\* C1 happens: an ID listed twice in state under one kind and once in truth
\* under another kind, reported once on each side.
C1_Witness ==
    /\ Compared
    /\ \E K1 \in ResourceTypes, K2 \in ResourceTypes, id \in IDs :
         /\ K1 # K2
         /\ Cardinality({i \in DOMAIN state : state[i].Type = K1 /\ state[i].ID = id}) = 2
         /\ id \notin IDsOf(truth, K1)
         /\ id \in IDsOf(truth, K2)
         /\ id \notin IDsOf(state, K2)
         /\ Len(diffs) = 2

\* C2: an ID present on both sides within a kind, whose tracked fields agree
\* (Name; for a server also the set of security groups), has no DiffResult,
\* whatever Properties, ParentID, ParentName and ProjectName hold.
C2_NoFalsePositive ==
    Compared =>
        \A K \in ResourceTypes :
            \A id \in IDsOf(state, K) \cap IDsOf(truth, K) :
                TrackedAgree(K, LastOf(state, K, id), LastOf(truth, K, id)) =>
                    DiffsFor(K, id) = {}

\* C2 happens: a pair agreeing on the tracked fields and differing in the
\* project name and the properties (a server or a security group), found equal.
C2_Witness ==
    /\ Compared
    /\ \E K \in {ResourceTypeServer, ResourceTypeSecurityGroup} :
         /\ OnePair(K)
         /\ TrackedAgree(K, state[1], truth[1])
         /\ state[1].ProjectName # truth[1].ProjectName
         /\ state[1].Properties # truth[1].Properties
    /\ diffs = <<>>

\* C3: a server in both lists whose Name differs has exactly one DiffResult,
\* with status name_changed, whether or not its security groups differ;
\* secgroups_changed is reported only for a server in both lists with equal
\* names and different security-group sets.
C3_NamePrecedence ==
    Compared =>
        /\ \A id \in IDsOf(state, ResourceTypeServer) \cap IDsOf(truth, ResourceTypeServer) :
              LastOf(state, ResourceTypeServer, id).Name #
                  LastOf(truth, ResourceTypeServer, id).Name =>
                    /\ Cardinality(DiffsFor(ResourceTypeServer, id)) = 1
                    /\ \A j \in DiffsFor(ResourceTypeServer, id) :
                          diffs[j].Status = StatusNameChanged
        /\ \A j \in DOMAIN diffs :
              diffs[j].Status = StatusSecGroupChanged =>
                  /\ diffs[j].ResourceType = ResourceTypeServer
                  /\ diffs[j].ResourceID \in
                        IDsOf(state, ResourceTypeServer) \cap IDsOf(truth, ResourceTypeServer)
                  /\ LET s == LastOf(state, ResourceTypeServer, diffs[j].ResourceID)
                         t == LastOf(truth, ResourceTypeServer, diffs[j].ResourceID)
                     IN s.Name = t.Name /\ SGSet(s) # SGSet(t)

\* C3 happens: a server differing in name and in security groups, reported
\* once as name_changed.
C3_Witness ==
    /\ Compared
    /\ OnePair(ResourceTypeServer)
    /\ state[1].Name # truth[1].Name
    /\ SGSet(state[1]) # SGSet(truth[1])
    /\ Len(diffs) = 1
    /\ diffs[1].Status = StatusNameChanged

\* C4: for a server in both lists with the same Name there is no DiffResult
\* if and only if the two SecurityGroups lists hold the same set of names
\* (order, repeats, and nil against empty do not count).
C4_SetSemantics ==
    Compared =>
        \A id \in IDsOf(state, ResourceTypeServer) \cap IDsOf(truth, ResourceTypeServer) :
            LET s == LastOf(state, ResourceTypeServer, id)
                t == LastOf(truth, ResourceTypeServer, id)
            IN s.Name = t.Name =>
                 ((DiffsFor(ResourceTypeServer, id) = {}) <=> (SGSet(s) = SGSet(t)))

\* C4 happens: lists of different length and order with the same set of names
\* (a repeat on one side), found equal.
C4_Witness ==
    /\ Compared
    /\ OnePair(ResourceTypeServer)
    /\ state[1].Name = truth[1].Name
    /\ Len(state[1].SecurityGroups.elems) = 3
    /\ Len(truth[1].SecurityGroups.elems) = 2
    /\ state[1].SecurityGroups.elems[1] # truth[1].SecurityGroups.elems[1]
    /\ SGSet(state[1]) = SGSet(truth[1])
    /\ diffs = <<>>

\* C5: a DiffResult of kind security-group-rule has status missing_in_truth
\* or missing_in_state, and a rule whose ID is on both sides has no DiffResult.
C5_RulesOnlyMissing ==
    Compared =>
        /\ \A j \in DOMAIN diffs :
              diffs[j].ResourceType = ResourceTypeSecurityGroupRule =>
                  diffs[j].Status \in {StatusMissingInTruth, StatusMissingInState}
        /\ \A id \in IDsOf(state, ResourceTypeSecurityGroupRule)
                        \cap IDsOf(truth, ResourceTypeSecurityGroupRule) :
              DiffsFor(ResourceTypeSecurityGroupRule, id) = {}

\* C5 happens: one rule on both sides, differing in parent ID, parent name,
\* name and properties, not reported.
C5_Witness ==
    /\ Compared
    /\ OnePair(ResourceTypeSecurityGroupRule)
    /\ state[1].ParentID # truth[1].ParentID
    /\ state[1].ParentName # truth[1].ParentName
    /\ state[1].Properties # truth[1].Properties
    /\ state[1].Name # truth[1].Name
    /\ diffs = <<>>

RECURSIVE AllDrifts(_)
\* the DiffResults of a list of ProjectDrift, each with its project, in order
AllDrifts(ps) ==
    IF ps = <<>> THEN <<>>
    ELSE [i \in 1..Len(Head(ps).Drifts) |->
            [project |-> Head(ps).ProjectName, drift |-> Head(ps).Drifts[i]]]
         \o AllDrifts(Tail(ps))

TotalDiffs(r) == Len(AllDrifts(r.Projects))

RECURSIVE SumOver(_, _)
\* the sum of the values a tally holds for the keys of a set
SumOver(m, keys) ==
    IF keys = {} THEN 0
    ELSE LET k == CHOOSE x \in keys : TRUE
         IN m[k] + SumOver(m, keys \ {k})

\* the run ended with a report (no fatal error)
Finished == pc = "done" /\ output.call # "error"

\* C6: the command exits with 1 if and only if the projects processed have
\* one DiffResult or more in all, and with 0 otherwise, whatever the filters.
C6_ExitIffDrift ==
    Finished => ((exitCode = 1) <=> (TotalDiffs(report) > 0))

\* C7: HasDrift is true if and only if the added projects hold one DiffResult
\* or more in all (false for a fresh report and for projects without drift).
C7_HasDriftIffTotal ==
    /\ HasDrift(report) <=> (TotalDiffs(report) > 0)
    /\ HasDrift(filtered) <=> (TotalDiffs(filtered) > 0)

\* C7 happens: two projects added, neither with a DiffResult.
C7_Witness ==
    /\ Len(report.Projects) = 2
    /\ TotalDiffs(report) = 0
    /\ ~HasDrift(report)

\* the summary of a report agrees with its project list
SummaryAgrees(r) ==
    LET all == AllDrifts(r.Projects)
    IN /\ r.Summary.TotalProjects = Len(r.Projects)
       /\ r.Summary.TotalDrift = Len(all)
       /\ \A s \in DriftStatuses \cup DOMAIN r.Summary.ByStatus :
             MapGet(r.Summary.ByStatus, s) =
                 Cardinality({i \in DOMAIN all : all[i].drift.Status = s})
       /\ \A k \in ResourceTypes \cup DOMAIN r.Summary.ByType :
             MapGet(r.Summary.ByType, k) =
                 Cardinality({i \in DOMAIN all : all[i].drift.ResourceType = k})
       /\ SumOver(r.Summary.ByStatus, DOMAIN r.Summary.ByStatus) = r.Summary.TotalDrift
       /\ SumOver(r.Summary.ByType, DOMAIN r.Summary.ByType) = r.Summary.TotalDrift

\* C8: after any sequence of AddProject calls TotalProjects, TotalDrift,
\* ByStatus and ByType agree with the entries of Projects.
C8_SummaryAgrees == SummaryAgrees(report) /\ SummaryAgrees(filtered)

\* C8 happens: two projects holding DiffResults of two statuses and two kinds.
C8_Witness ==
    /\ Len(report.Projects) = 2
    /\ Len(report.Projects[1].Drifts) >= 2
    /\ Len(report.Projects[2].Drifts) >= 2
    /\ Cardinality(DOMAIN report.Summary.ByStatus) >= 2
    /\ Cardinality(DOMAIN report.Summary.ByType) >= 2

\* one step leaves the report alone or appends the processed project to it
AppendOnlyStep ==
    \/ report' = report
    \/ /\ Len(report'.Projects) = Len(report.Projects) + 1
       /\ SubSeq(report'.Projects, 1, Len(report.Projects)) = report.Projects
       /\ report'.Projects[Len(report'.Projects)] =
             ProjectDrift(projects[idx], diffs', CountResources(state'),
                          CountResources(truth'))

\* C9: AddProject appends the given ProjectDrift as the last entry and leaves
\* the earlier entries and their order unchanged; no step of a run removes or
\* edits an entry.
C9_AppendOnly == [][AppendOnlyStep]_vars

\* C9 happens: a second project was appended after a first one with drift,
\* and the run went on to filter and render.
C9_Witness ==
    /\ pc = "done"
    /\ Len(report.Projects) = 2
    /\ Len(report.Projects[1].Drifts) > 0
    /\ resourceFilter # "all"

\* the kind a --resource value selects
FilterKind(rf) ==
    CASE rf = "servers" -> ResourceTypeServer
      [] rf = "secgrps" -> ResourceTypeSecurityGroup
      [] rf = "rules" -> ResourceTypeSecurityGroupRule

\* a DiffResult matches the two filters
Selected(d, rf, sf) ==
    /\ rf = "all" \/ d.ResourceType = FilterKind(rf)
    /\ sf = "all" \/ d.Status = sf

\* the filtering step of a run
FilterStep == pc = "process" /\ pc' = "done"

\* C10: the DiffResults of the report filterReport returns are those of the
\* input that match both filters, each once, under its project, in order;
\* the input is unchanged and the summary tallies the kept DiffResults.
C10_FilterRepartition ==
    [][FilterStep =>
          /\ report' = report
          /\ AllDrifts(filtered'.Projects) =
                SelectSeq(AllDrifts(report.Projects),
                          LAMBDA e : Selected(e.drift, resourceFilter, statusFilter))
          /\ SummaryAgrees(filtered')]_vars

\* C10 happens: a filter kept two DiffResults of one project and dropped
\* others.
C10_Witness ==
    /\ Finished
    /\ statusFilter # "all"
    /\ \E i \in DOMAIN filtered.Projects : Len(filtered.Projects[i].Drifts) >= 2
    /\ 0 < TotalDiffs(filtered)
    /\ TotalDiffs(filtered) < TotalDiffs(report)

(***************************************************************************)
(* The truth extractor: vocabulary.                                        *)
(***************************************************************************)
Extracted == pc = "extracted"

\* the reserved placeholder of osc output
Placeholder == "n/a"

\* the document has one row and the extractor returned its Resource
OneRowExtracted ==
    /\ Extracted
    /\ ~doc.isNil
    /\ Len(doc.Data) = 1
    /\ Len(extracted) = 1

\* the top-level value of a row for a logical field
TopOf(row, field) ==
    CASE field = "id" -> row.ID
      [] field = "name" -> row.Name
      [] field = "project" -> row.ProjectName
      [] field = "address" -> row.IPAddress
      [] field = "parentID" -> row.ParentID
      [] field = "parentName" -> row.ParentName

\* the value of a property of a Resource, "" when it has none
PropertyOf(r, key) ==
    IF \E p \in r.Properties : p[1] = key
    THEN (CHOOSE p \in r.Properties : p[1] = key)[2]
    ELSE ""

\* what a Resource holds for a logical field
ResourceField(r, field) ==
    CASE field = "id" -> r.ID
      [] field = "name" -> r.Name
      [] field = "project" -> r.ProjectName
      [] field = "address" -> PropertyOf(r, "ip_address")
      [] field = "parentID" -> r.ParentID
      [] field = "parentName" -> r.ParentName

\* the legacy map holds a value under this label
LegacyPresent(row, key) ==
    /\ key \in DOMAIN row.Fields
    /\ row.Fields[key] \notin {"", Placeholder}

\* the value under the first label of `keys` the legacy map holds a value under
RECURSIVE FirstPresent(_, _)
FirstPresent(row, keys) ==
    IF keys = <<>> THEN ""
    ELSE IF LegacyPresent(row, Head(keys)) THEN row.Fields[Head(keys)]
    ELSE FirstPresent(row, Tail(keys))

\* the caller's project name decides the project of every Resource when given
FieldIsRead(field) == field # "project" \/ projectArg = ""

\* C11: every logical field of an extracted truth record is the record's
\* top-level value when there is one, and otherwise the value under the first
\* of the field's legacy labels, in their fixed order, that holds one,
\* whatever the other fields of the record come from.  (A top-level
\* placeholder is the case of C12 and is left to it.)
C11_TopLevelThenAliases ==
    OneRowExtracted =>
        LET row == doc.Data[1]
            r == extracted[1]
        IN  \A field \in FieldsOfKind(r.Type) :
                FieldIsRead(field) /\ TopOf(row, field) # Placeholder =>
                    ResourceField(r, field) =
                        IF TopOf(row, field) # "" THEN TopOf(row, field)
                        ELSE FirstPresent(row, Aliases(r.Type, field))

\* a record of mixed vintage: the name found under the second legacy label
\* although the first holds the placeholder, the id found at top level
C11_Witness ==
    /\ OneRowExtracted
    /\ doc.Data[1].Type = "server"
    /\ doc.Data[1].ID = "id-1"
    /\ doc.Data[1].Name = ""
    /\ "Server Name" \in DOMAIN doc.Data[1].Fields
    /\ doc.Data[1].Fields["Server Name"] = Placeholder
    /\ LegacyPresent(doc.Data[1], "server_name")
    /\ LegacyPresent(doc.Data[1], "name")
    /\ extracted[1].ID = "id-1"
    /\ extracted[1].Name = doc.Data[1].Fields["server_name"]

\* the row holds a value (neither empty nor the placeholder) for the field,
\* at top level or under one of the legacy labels of its kind
HasValue(row, field) ==
    \/ TopOf(row, field) \notin {"", Placeholder}
    \/ FirstPresent(row, Aliases(KindOfTag(row.Type), field)) # ""

\* C12: the placeholder "n/a" is absent wherever it appears: no Resource of
\* the truth extractor holds it as ID, Name, ParentID, ParentName, ProjectName
\* or address, and a record whose only id is the placeholder is dropped.
C12_PlaceholderIsAbsent ==
    Extracted =>
        /\ \A i \in DOMAIN extracted : \A field \in LogicalFields :
               ResourceField(extracted[i], field) # Placeholder
        /\ \A i \in DOMAIN doc.Data :
               ~HasValue(doc.Data[i], "id") /\ Len(doc.Data) = 1 => extracted = <<>>

\* the kind a type tag names, "" when it names none of the three
KindNamed(tag) == IF tag \in ResourceTypes THEN tag ELSE ""

\* C13: the truth extractor classifies by the type tag as the state extractor
\* does by the kind string: a tag naming one of the three kinds yields a
\* Resource of that kind, a tag naming any other kind yields none, and only
\* a row without a tag is extracted as a server.
C13_TagClassifies ==
    Extracted /\ ~doc.isNil /\ Len(doc.Data) = 1 =>
        LET row == doc.Data[1]
        IN  /\ row.Type \notin ResourceTypes \cup {""} => extracted = <<>>
            /\ \A i \in DOMAIN extracted :
                   extracted[i].Type =
                       IF row.Type = "" THEN ResourceTypeServer ELSE KindNamed(row.Type)

(***************************************************************************)
(* The state extractor: vocabulary.                                        *)
(***************************************************************************)
\* the document has a module tree
HasTree == ~doc.isNil /\ ~doc.Values.isNil /\ ~doc.Values.RootModule.isNil

\* the module reached from module m by descending into the child modules
\* numbered path[1], path[2], ...
RECURSIVE ModuleAt(_, _)
ModuleAt(m, path) ==
    IF path = <<>> THEN m ELSE ModuleAt(m.ChildModules[Head(path)], Tail(path))

\* the paths of the modules of the tree under m, m included
RECURSIVE Paths(_)
Paths(m) ==
    {<<>>} \cup UNION {{<<c>> \o p : p \in Paths(m.ChildModules[c])} :
                          c \in DOMAIN m.ChildModules}

\* where the records of the tree are: <<path of the module, index in its Resources>>
RecordPositions(m) ==
    UNION {{<<p, i>> : i \in DOMAIN ModuleAt(m, p).Resources} : p \in Paths(m)}

RecordAt(m, pos) == ModuleAt(m, pos[1]).Resources[pos[2]]

IsProperPrefix(p, q) == Len(p) < Len(q) /\ SubSeq(q, 1, Len(p)) = p

\* depth-first pre-order of the record positions: a module's records in
\* their order, a module's own records before those of its descendants,
\* an earlier child module's subtree before a later one's
PreOrderBefore(a, b) ==
    \/ a[1] = b[1] /\ a[2] < b[2]
    \/ IsProperPrefix(a[1], b[1])
    \/ \E k \in 1..Len(a[1]) :
          /\ k <= Len(b[1])
          /\ SubSeq(a[1], 1, k - 1) = SubSeq(b[1], 1, k - 1)
          /\ a[1][k] < b[1][k]

\* the kind a Terraform record type stands for, "" for any other type
KindOfTfType(type) ==
    CASE type = "openstack_compute_instance_v2" -> ResourceTypeServer
      [] type = "openstack_networking_secgroup_v2" -> ResourceTypeSecurityGroup
      [] type = "openstack_networking_secgroup_rule_v2" -> ResourceTypeSecurityGroupRule
      [] OTHER -> ""

\* the record's id when it is a string, "" otherwise
TfID(rec) ==
    IF "id" \in DOMAIN rec.Values /\ rec.Values["id"].type = "string"
    THEN rec.Values["id"].s ELSE ""

\* the record is of one of the three kinds and has a non-empty id
Extractable(rec) == KindOfTfType(rec.Type) # "" /\ TfID(rec) # ""

ExtractablePositions(m) == {pos \in RecordPositions(m) : Extractable(RecordAt(m, pos))}

\* C14: ExtractResourcesFromTerraform returns one Resource for every record
\* of a recognized kind with a non-empty id of the module tree, root and
\* child modules at any depth, in depth-first pre-order, each with the
\* caller's project name; other records contribute nothing.
C14_FlatPreOrder ==
    Extracted /\ HasTree =>
        LET m == doc.Values.RootModule
            P == ExtractablePositions(m)
        IN  /\ Len(extracted) = Cardinality(P)
            /\ \A pos \in P :
                   LET rank == 1 + Cardinality({o \in P : PreOrderBefore(o, pos)})
                       rec == RecordAt(m, pos)
                   IN  /\ rank <= Len(extracted)
                       /\ extracted[rank].ID = TfID(rec)
                       /\ extracted[rank].Type = KindOfTfType(rec.Type)
                       /\ extracted[rank].ProjectName = projectArg

\* a tree with a record in the root module, one in a child module and one
\* in a module nested in it, all extracted, the grandchild's last
C14_Witness ==
    /\ Extracted
    /\ HasTree
    /\ <<<<>>, 1>> \in ExtractablePositions(doc.Values.RootModule)
    /\ <<<<1>>, 1>> \in ExtractablePositions(doc.Values.RootModule)
    /\ <<<<1, 1>>, 1>> \in ExtractablePositions(doc.Values.RootModule)
    /\ Len(extracted) = 3
    /\ extracted[3].ID = TfID(RecordAt(doc.Values.RootModule, <<<<1, 1>>, 1>>))
    /\ extracted[2].ID # extracted[3].ID

(***************************************************************************)
(* Both extractors: vocabulary.                                            *)
(***************************************************************************)
\* the input is osc output (otherwise it is a Terraform state)
IsOscOutput == "Data" \in DOMAIN doc

\* the row is untagged or tagged as one of the three kinds
OfTheThreeKinds(row) == row.Type \in ResourceTypes \cup {""}

\* the row has no id or an empty one, at top level and under every legacy label
RowIDMissing(row) ==
    /\ row.ID = ""
    /\ \A i \in DOMAIN Aliases(KindOfTag(row.Type), "id") :
           LET key == Aliases(KindOfTag(row.Type), "id")[i]
           IN  key \notin DOMAIN row.Fields \/ row.Fields[key] = ""

\* the rows that must be extracted, and the rows that must be dropped
RowsWithID == {i \in DOMAIN doc.Data : OfTheThreeKinds(doc.Data[i]) /\ HasValue(doc.Data[i], "id")}

RowsWithoutID == {i \in DOMAIN doc.Data : OfTheThreeKinds(doc.Data[i]) /\ RowIDMissing(doc.Data[i])}

\* the same for the records of a module tree
RecordsWithoutID(m) ==
    {pos \in RecordPositions(m) :
        KindOfTfType(RecordAt(m, pos).Type) # "" /\ TfID(RecordAt(m, pos)) = ""}

\* C15: every Resource either extractor emits has a non-empty ID; a record
\* of one of the three kinds without an id or with an empty one is dropped,
\* and the other records of the document are still extracted.
C15_NonEmptyID ==
    Extracted =>
        /\ \A i \in DOMAIN extracted : extracted[i].ID # ""
        /\ IsOscOutput /\ ~doc.isNil =>
              /\ Len(extracted) >= Cardinality(RowsWithID)
              /\ Len(extracted) <= Len(doc.Data) - Cardinality(RowsWithoutID)
              /\ \A i \in RowsWithID : \E j \in DOMAIN extracted :
                     extracted[j].ID \in {doc.Data[i].ID,
                                          FirstPresent(doc.Data[i],
                                              Aliases(KindOfTag(doc.Data[i].Type), "id"))}
        /\ ~IsOscOutput /\ HasTree =>
              /\ Len(extracted) >= Cardinality(ExtractablePositions(doc.Values.RootModule))
              /\ Len(extracted) <= Cardinality(RecordPositions(doc.Values.RootModule))
                                      - Cardinality(RecordsWithoutID(doc.Values.RootModule))

\* a truth document whose second row has no id, between two rows that have
\* one: two Resources
C15_Witness ==
    /\ Extracted
    /\ IsOscOutput
    /\ Len(doc.Data) = 3
    /\ RowsWithID = {1, 3}
    /\ RowsWithoutID = {2}
    /\ doc.Data[2].Type = "security-group"
    /\ Len(extracted) = 2

(***************************************************************************)
(* Discovery and loading: vocabulary.                                      *)
(***************************************************************************)
\* the entry is a subdirectory holding a "state" or a "truth" directory
Qualifies(e) == e.isDir /\ (e.state # "absent" \/ e.truth # "absent")

QualifyingEntries == {i \in DOMAIN root.entries : Qualifies(root.entries[i])}

\* the projects path cannot be read as a directory, or nothing in it qualifies
DiscoveryMustFail == root.status # "dir" \/ QualifyingEntries = {}

\* the run ended with the error of ProcessAllProjects
RunFailed == pc = "done" /\ output.call = "error"

\* C16: DiscoverProjects returns the subdirectories of the root that hold a
\* "state" or a "truth" directory, each once and in the directory's order,
\* and no plain file nor other subdirectory; it fails exactly when the root
\* is not a readable directory or nothing qualifies, and then
\* ProcessAllProjects returns the error: no comparison, no report.
C16_DiscoverExactly ==
    pc # "discover" =>
        /\ RunFailed <=> DiscoveryMustFail
        /\ RunFailed =>
              /\ projects = <<>>
              /\ diffs = <<>>
              /\ report = NewDriftReport
              /\ filtered = NewDriftReport
              /\ exitCode = 1
        /\ ~RunFailed =>
              /\ Len(projects) = Cardinality(QualifyingEntries)
              /\ \A i \in QualifyingEntries :
                     projects[1 + Cardinality({j \in QualifyingEntries : j < i})]
                         = root.entries[i].name

\* a root holding a subdirectory with neither directory and one with only a
\* truth directory: the second alone is discovered
C16_Witness ==
    /\ pc = "process"
    /\ Len(root.entries) = 2
    /\ root.entries[1].isDir
    /\ ~Qualifies(root.entries[1])
    /\ root.entries[2].state = "absent"
    /\ root.entries[2].truth = "dir"
    /\ projects = <<root.entries[2].name>>

ZeroCounts == [Servers |-> 0, SecurityGroups |-> 0, SecurityGroupRules |-> 0]

\* one iteration of the loop of ProcessAllProjects
LoopStep == pc = "process" /\ pc' = "process" /\ idx' = idx + 1

\* every resource of the list has a DiffResult of this status among drifts,
\* and drifts has no other status
AllReportedAs(resources, drifts, status) ==
    /\ \A i \in DOMAIN resources : \E j \in DOMAIN drifts :
           /\ drifts[j].ResourceID = resources[i].ID
           /\ drifts[j].ResourceType = resources[i].Type
           /\ drifts[j].Status = status
    /\ \A j \in DOMAIN drifts : drifts[j].Status = status

\* the iteration appended a ProjectDrift for the project it processed
Succeeded ==
    /\ Len(report'.Projects) = Len(report.Projects) + 1
    /\ report'.Projects[Len(report'.Projects)].ProjectName = projects[idx]

\* the ProjectDrift the iteration appended
Appended == report'.Projects[Len(report'.Projects)]

C17_Step ==
    LoopStep =>
        LET e == EntryOf(projects[idx])
        IN  /\ e.state = "dir" /\ e.truth = "absent" =>
                  /\ Succeeded
                  /\ truth' = <<>>
                  /\ Appended.TruthCount = ZeroCounts
                  /\ Appended.StateCount = CountResources(state')
                  /\ AllReportedAs(state', Appended.Drifts, "missing_in_truth")
            /\ e.state = "absent" /\ e.truth = "dir" =>
                  /\ Succeeded
                  /\ state' = <<>>
                  /\ Appended.StateCount = ZeroCounts
                  /\ Appended.TruthCount = CountResources(truth')
                  /\ AllReportedAs(truth', Appended.Drifts, "missing_in_state")

\* C17: a missing state or truth directory is an empty side, not an error:
\* processing a project with only one of the two (listable) directories
\* succeeds, counts zero resources for the missing side and reports every
\* resource of the other side as missing_in_truth (only state) or
\* missing_in_state (only truth).
C17_MissingSideIsEmpty == [][C17_Step]_vars

\* a project with only a state directory holding three servers under two IDs
\* was processed: two missing_in_truth results, no truth resource counted
C17_Witness ==
    /\ pc = "process"
    /\ idx = 2
    /\ EntryOf(projects[1]).state = "dir"
    /\ EntryOf(projects[1]).truth = "absent"
    /\ Len(report.Projects) = 1
    /\ report.Projects[1].StateCount.Servers = 3
    /\ report.Projects[1].TruthCount = ZeroCounts
    /\ Len(report.Projects[1].Drifts) = 2
    /\ AllReportedAs(state, report.Projects[1].Drifts, "missing_in_truth")

\* a directory loader returned
DirLoaded == pc \in {"stateLoaded", "truthLoaded"}

\* the names of the directory that end in ".json" in any letter case
JsonNames ==
    {<<"a", ".", "j", "s", "o", "n">>,
     <<"b", ".", "J", "S", "O", "N">>,
     <<"d", ".", "j", "s", "o", "n">>}

\* the entry is a parseable .json file
Contributes(entry) == ~entry.IsDir /\ entry.Name \in JsonNames /\ entry.parses

\* the id of the server the file of this name describes
IDOfFile(name) == FileIDs[CHOOSE k \in DOMAIN FileNames : FileNames[k] = name]

\* C18: both directory loaders return the concatenation, in listing order,
\* of what every parseable .json file of the directory yields: a file that
\* does not parse, a file of another name and a subdirectory add nothing
\* and stop nothing; the call fails only when the directory cannot be listed.
C18_ConcatenatesParseable ==
    DirLoaded =>
        /\ err <=> ~doc.listable
        /\ err => extracted = <<>>
        /\ doc.listable =>
              LET files == SelectSeq(doc.entries, Contributes)
              IN  /\ Len(extracted) = Len(files)
                  /\ \A i \in DOMAIN files :
                         /\ extracted[i].ID = IDOfFile(files[i].Name)
                         /\ extracted[i].ProjectName = projectArg

\* a truth directory whose first file does not parse, followed by a
\* parseable .JSON file, a parseable .txt file and a parseable .json file:
\* the second and the fourth contribute
C18_Witness ==
    /\ pc = "truthLoaded"
    /\ doc.listable
    /\ Len(doc.entries) = 4
    /\ ~doc.entries[1].IsDir
    /\ ~doc.entries[1].parses
    /\ doc.entries[2].parses
    /\ doc.entries[3].parses
    /\ doc.entries[4].parses
    /\ ~err
    /\ Len(extracted) = 2
    /\ extracted[1].ID = "id-b"
    /\ extracted[2].ID = "id-d"

\* processing the project of this name fails: one of its directories cannot be listed
CannotBeLoaded(name) ==
    EntryOf(name).state = "unlistable" \/ EntryOf(name).truth = "unlistable"

\* the loop of ProcessAllProjects is over
LoopDone == pc = "done" /\ output.call # "error"

\* C19: ProcessAllProjects processes the discovered projects in discovery
\* order; a project whose processing fails is skipped and the others are
\* still processed: the call succeeds and the report holds one ProjectDrift
\* for each project that could be processed, the ones without diffs
\* included, in discovery order, and none for a failed project.
C19_SkipsFailedProjects ==
    /\ pc = "process" =>
          LET done == SelectSeq(SubSeq(projects, 1, idx - 1),
                                LAMBDA name : ~CannotBeLoaded(name))
          IN  /\ Len(report.Projects) = Len(done)
              /\ \A i \in DOMAIN done : report.Projects[i].ProjectName = done[i]
    /\ pc = "done" /\ ~DiscoveryMustFail => LoopDone
    /\ LoopDone =>
          LET done == SelectSeq(projects, LAMBDA name : ~CannotBeLoaded(name))
          IN  /\ idx = Len(projects) + 1
              /\ Len(report.Projects) = Len(done)
              /\ \A i \in DOMAIN done : report.Projects[i].ProjectName = done[i]

\* two projects discovered, the first cannot be loaded, the second has no
\* diff: the run ends with a report holding the second project alone
C19_Witness ==
    /\ LoopDone
    /\ Len(projects) = 2
    /\ CannotBeLoaded(projects[1])
    /\ Len(report.Projects) = 1
    /\ report.Projects[1].ProjectName = projects[2]
    /\ report.Projects[1].Drifts = <<>>

\* the DiffResults of a result list
ResultSet(list) == {list[i] : i \in DOMAIN list}

\* C20: CompareResources is deterministic up to order: whatever order the
\* maps are iterated in, a call on the same state and truth lists returns
\* the same DiffResults (kind, ID, name, project, parent, status, details),
\* as many of them, possibly in another order.
C20_DeterministicUpToOrder ==
    Compared =>
        \A other \in CompareResources(state, truth) :
            /\ ResultSet(other) = ResultSet(diffs)
            /\ Len(other) = Len(diffs)

\* two lists whose comparison has two results: another call can return
\* them in the other order
C20_Witness ==
    /\ Compared
    /\ Len(diffs) = 2
    /\ diffs[1].ResourceType = diffs[2].ResourceType
    /\ <<diffs[2], diffs[1]>> \in CompareResources(state, truth)

(***************************************************************************)
(* Rendering: vocabulary.                                                  *)
(***************************************************************************)
\* the command rendered something (it did not fail before the formatter)
Rendered == pc = "done" /\ output.call \in {"PrintNoDrift", "FormatReport"}

\* the report handed to the formatter holds at least one diff
SomeDiffIn(r) == \E i \in DOMAIN r.Projects : r.Projects[i].Drifts # <<>>

\* what was written has no diff row, in the shape the format prescribes
NoDiffRowWritten ==
    CASE output.format = FormatJSON ->
            /\ output.lines = <<>>
            /\ Len(output.json) = 1
            /\ DOMAIN output.json[1] = {"projects", "summary"}
            /\ output.json[1].projects = <<>>
            /\ output.json[1].summary.total_drift = 0
            /\ DOMAIN output.json[1].summary.by_status = {}
            /\ DOMAIN output.json[1].summary.by_type = {}
      [] output.format = FormatCSV ->
            /\ output.json = <<>>
            /\ output.lines = <<CSVHeader>>
      [] OTHER ->
            /\ output.json = <<>>
            /\ Len(output.lines) = 1
            /\ Len(output.lines[1]) = 1

\* C21: the command renders through PrintNoDrift exactly when the report it
\* renders has no drift and through FormatReport exactly when it has; the
\* no-drift path writes no diff row: one sentence for table, the header row
\* alone for CSV, and for JSON a report object with an empty project list,
\* total_drift 0 and empty by_status and by_type tallies.
C21_NoDriftPath ==
    Rendered =>
        /\ (output.call = "PrintNoDrift") <=> ~SomeDiffIn(filtered)
        /\ (output.call = "FormatReport") <=> SomeDiffIn(filtered)
        /\ output.call = "PrintNoDrift" => NoDiffRowWritten

\* a run over processed projects ended on the no-drift path in table format
C21_Witness ==
    /\ Rendered
    /\ output.call = "PrintNoDrift"
    /\ output.format = FormatTable
    /\ output.projectCount > 0
    /\ NoDiffRowWritten

(***************************************************************************)
(* Order and independence of the comparison: vocabulary.                   *)
(***************************************************************************)
\* the loop of compareResourcesByType a status is appended by
Phase(d) ==
    CASE d.Status = StatusMissingInTruth -> 1
      [] d.Status = StatusMissingInState -> 2
      [] OTHER -> 3

\* s with the elements at i and i + 1 exchanged
SwapAt(s, i) ==
    [k \in DOMAIN s |-> IF k = i THEN s[i + 1] ELSE IF k = i + 1 THEN s[i] ELSE s[k]]

\* neighbours of one kind appended by one loop
SamePhaseNeighbours(i) ==
    /\ i \in 1..(Len(diffs) - 1)
    /\ diffs[i].ResourceType = diffs[i + 1].ResourceType
    /\ Phase(diffs[i]) = Phase(diffs[i + 1])

\* C22: among the DiffResults of one kind every missing_in_truth result
\* precedes every missing_in_state result and every missing_in_state result
\* precedes every changed result; within one phase no order is fixed: the
\* result with two neighbours of one phase exchanged is a possible result too.
C22_PhaseOrder ==
    Compared =>
        /\ \A i, j \in DOMAIN diffs :
              i < j /\ diffs[i].ResourceType = diffs[j].ResourceType
                  => Phase(diffs[i]) <= Phase(diffs[j])
        /\ \A i \in DOMAIN diffs :
              SamePhaseNeighbours(i) => SwapAt(diffs, i) \in CompareResources(state, truth)

\* one kind with two results of the first phase followed by one of a later phase
C22_Witness ==
    /\ Compared
    /\ Len(diffs) = 3
    /\ SamePhaseNeighbours(1)
    /\ diffs[2].ResourceType = diffs[3].ResourceType
    /\ Phase(diffs[2]) < Phase(diffs[3])

\* the resources of kind K of a list, in list order
OfKind(list, K) == SelectSeq(list, LAMBDA r : r.Type = K)

\* the DiffResults of kind K of a result, in result order
KindPart(result, K) == SelectSeq(result, LAMBDA d : d.ResourceType = K)

\* the ID occurs on the state side under kind K and on the truth side under
\* another kind L only
CrossKind(id, K, L) ==
    /\ K # L
    /\ id \in IDsOf(state, K) /\ id \notin IDsOf(truth, K)
    /\ id \in IDsOf(truth, L) /\ id \notin IDsOf(state, L)

\* C23: the DiffResults of kind K depend only on the K-resources of the two
\* inputs: they are the possible results of comparing the K-resources alone,
\* whatever resources of other kinds (with the same IDs or not) the lists
\* hold; a state resource and a truth resource sharing an ID under different
\* kinds are not matched, each is reported missing on the other side.
C23_KindsIndependent ==
    Compared =>
        /\ \A K \in ResourceTypes :
              /\ KindPart(diffs, K) \in CompareResources(OfKind(state, K), OfKind(truth, K))
              /\ \A alone \in CompareResources(OfKind(state, K), OfKind(truth, K)) :
                    \E whole \in CompareResources(state, truth) : KindPart(whole, K) = alone
        /\ \A K \in ResourceTypes, L \in ResourceTypes :
              \A id \in IDsOf(state, K) \cap IDsOf(truth, L) :
                 CrossKind(id, K, L) =>
                    /\ \E i \in DiffsFor(K, id) : diffs[i].Status = StatusMissingInTruth
                    /\ \E i \in DiffsFor(L, id) : diffs[i].Status = StatusMissingInState
                    /\ Cardinality(DiffsFor(K, id)) = 1
                    /\ Cardinality(DiffsFor(L, id)) = 1

\* a server and a security group share an ID across the two sides, next to a
\* rule of the same ID
C23_Witness ==
    /\ Compared
    /\ CrossKind("id-1", ResourceTypeServer, ResourceTypeSecurityGroup)
    /\ "id-1" \in IDsOf(state, ResourceTypeSecurityGroupRule)
    /\ Len(diffs) = 3

\* the positions at which a list holds (K, id)
Occurrences(list, K, id) == {i \in DOMAIN list : list[i].Type = K /\ list[i].ID = id}

\* (K, id) is held more than once by the list, under different names
Repeated(list, K, id) ==
    \E i, j \in Occurrences(list, K, id) : list[i].Name # list[j].Name

\* C24: when an ID occurs more than once among the same-kind resources of a
\* side, the last occurrence in list order is the one matched and compared:
\* the result for (K, id) is the one the last occurrences alone give; and for
\* every input there is at most one DiffResult per (kind, ID).
C24_LastOccurrenceWins ==
    Compared =>
        \A K \in ResourceTypes :
            \A id \in IDsOf(state, K) \cup IDsOf(truth, K) :
                /\ Cardinality(DiffsFor(K, id)) <= 1
                /\ \A i \in DiffsFor(K, id) :
                      diffs[i].ResourceName =
                          IF id \in IDsOf(state, K) THEN LastOf(state, K, id).Name
                          ELSE LastOf(truth, K, id).Name
                /\ id \in IDsOf(state, K) \cap IDsOf(truth, K) =>
                      (DiffsFor(K, id) = {}
                          <=> TrackedAgree(K, LastOf(state, K, id), LastOf(truth, K, id)))

\* state holds a server ID twice under two names, truth holds it under the
\* first of them: the comparison reports the change to the last
C24_Witness ==
    /\ Compared
    /\ Len(state) = 2 /\ Len(truth) = 1
    /\ Repeated(state, ResourceTypeServer, "id-1")
    /\ truth[1].Type = ResourceTypeServer /\ truth[1].ID = "id-1"
    /\ truth[1].Name = state[1].Name
    /\ Len(diffs) = 1
    /\ diffs[1].Status = StatusNameChanged

\* the names a list of the Details holds
Listed(names) == {names[i] : i \in DOMAIN names}

\* C25: a secgroups_changed result of a server lists as added exactly the
\* group names in the truth set and not in the state set and as removed
\* exactly those in the state set and not in the truth set (each once); the
\* two lists are disjoint and not both empty.
C25_AddedRemoved ==
    Compared =>
        \A i \in DOMAIN diffs :
            diffs[i].Status = StatusSecGroupChanged =>
                LET id == diffs[i].ResourceID
                    s == LastOf(state, ResourceTypeServer, id)
                    t == LastOf(truth, ResourceTypeServer, id)
                    added == diffs[i].Details.added
                    removed == diffs[i].Details.removed
                IN /\ diffs[i].ResourceType = ResourceTypeServer
                   /\ Listed(added) = SGSet(t) \ SGSet(s)
                   /\ Listed(removed) = SGSet(s) \ SGSet(t)
                   /\ Len(added) = Cardinality(Listed(added))
                   /\ Len(removed) = Cardinality(Listed(removed))
                   /\ Listed(added) \cap Listed(removed) = {}
                   /\ added # <<>> \/ removed # <<>>

\* a server whose groups were exchanged: one added, one removed, with repeats
\* in the lists compared
C25_Witness ==
    /\ Compared
    /\ OnePair(ResourceTypeServer)
    /\ Len(state[1].SecurityGroups.elems) > Cardinality(SGSet(state[1]))
    /\ Len(diffs) = 1
    /\ diffs[1].Status = StatusSecGroupChanged
    /\ diffs[1].Details.added # <<>>
    /\ diffs[1].Details.removed # <<>>

(***************************************************************************)
(* Counts and project names: vocabulary.                                   *)
(***************************************************************************)
\* a project has been processed: state and truth hold what was loaded for
\* the last ProjectDrift of the report
SomeProcessed == pc \in {"process", "done"} /\ report.Projects # <<>>

LastProject == report.Projects[Len(report.Projects)]

\* the number of list elements of each kind
ElementsByKind(list) ==
    [Servers |-> Len(OfKind(list, ResourceTypeServer)),
     SecurityGroups |-> Len(OfKind(list, ResourceTypeSecurityGroup)),
     SecurityGroupRules |-> Len(OfKind(list, ResourceTypeSecurityGroupRule))]

Reported(result) ==
    {<<result[i].ResourceType, result[i].ResourceID, result[i].Status>> : i \in DOMAIN result}

\* the status with the two missing statuses exchanged
MirrorStatus(status) ==
    IF status = StatusMissingInTruth THEN StatusMissingInState
    ELSE IF status = StatusMissingInState THEN StatusMissingInTruth
    ELSE status

Mirrored(triples) == {<<x[1], x[2], MirrorStatus(x[3])>> : x \in triples}

\* C27: CompareResources(truth, state) reports the (kind, ID) pairs that
\* CompareResources(state, truth) reports, with missing_in_truth and
\* missing_in_state exchanged and name_changed and secgroups_changed as
\* they are.
C27_SwapMirrors ==
    Compared =>
        \A swapped \in CompareResources(truth, state) :
            Reported(swapped) = Mirrored(Reported(diffs))

\* a result of three triples holding both missing statuses
C27_Witness ==
    /\ Compared
    /\ Cardinality(Reported(diffs)) = 3
    /\ \E i \in DOMAIN diffs : diffs[i].Status = StatusMissingInTruth
    /\ \E i \in DOMAIN diffs : diffs[i].Status = StatusMissingInState

\* the statuses CompareResources may give a result of kind K
StatusesOfKind(K) ==
    CASE K = ResourceTypeServer ->
            {StatusMissingInTruth, StatusMissingInState, StatusNameChanged,
             StatusSecGroupChanged}
      [] K = ResourceTypeSecurityGroup ->
            {StatusMissingInTruth, StatusMissingInState, StatusNameChanged}
      [] OTHER -> {StatusMissingInTruth, StatusMissingInState}

\* C28: every DiffResult has one of the statuses missing_in_truth,
\* missing_in_state, name_changed, secgroups_changed; rule_changed is never
\* produced; secgroups_changed occurs only on servers and name_changed only
\* on servers and security groups.
C28_StatusFitsKind ==
    Compared =>
        \A i \in DOMAIN diffs :
            /\ diffs[i].ResourceType \in ResourceTypes
            /\ diffs[i].Status \in StatusesOfKind(diffs[i].ResourceType)
            /\ diffs[i].Status # StatusRuleChanged

\* a renamed security group next to a rule missing in truth
C28_Witness ==
    /\ Compared
    /\ Len(diffs) = 2
    /\ \E i \in DOMAIN diffs :
          /\ diffs[i].ResourceType = ResourceTypeSecurityGroup
          /\ diffs[i].Status = StatusNameChanged
    /\ \E i \in DOMAIN diffs :
          /\ diffs[i].ResourceType = ResourceTypeSecurityGroupRule
          /\ diffs[i].Status = StatusMissingInTruth

\* every resource of the list carries the project name
AllOfProject(list, name) == \A i \in DOMAIN list : list[i].ProjectName = name

\* C29: every Resource loaded for a project carries the project directory's
\* name as ProjectName, also when its record was written under another
\* project's name, and every DiffResult of a ProjectDrift has the
\* ProjectDrift's ProjectName.
C29_ProjectNameIsDirectoryName ==
    /\ SomeProcessed =>
          /\ \E i \in DOMAIN root.entries :
                /\ root.entries[i].isDir
                /\ root.entries[i].name = LastProject.ProjectName
          /\ AllOfProject(state, LastProject.ProjectName)
          /\ AllOfProject(truth, LastProject.ProjectName)
    /\ \A i \in DOMAIN report.Projects :
          \A j \in DOMAIN report.Projects[i].Drifts :
              report.Projects[i].Drifts[j].ProjectName = report.Projects[i].ProjectName

\* the second project was loaded from truth records written under another
\* project's name and has results taken from both sides
C29_Witness ==
    /\ SomeProcessed
    /\ LastProject.ProjectName = "proj2"
    /\ LastProject.ProjectName # ForeignProject
    /\ Len(truth) = 2
    /\ \E j \in DOMAIN LastProject.Drifts : LastProject.Drifts[j].Status = StatusMissingInState
    /\ \E j \in DOMAIN LastProject.Drifts : LastProject.Drifts[j].Status = StatusMissingInTruth

\* C30: on the no-drift path the project count the command reports is the
\* number of projects that were successfully processed (TotalProjects of the
\* report ProcessAllProjects returned), for every setting of the filters.
C30_NoDriftProjectCount ==
    Finished /\ output.call = "PrintNoDrift" =>
        /\ output.projectCount = Len(report.Projects)
        /\ output.projectCount = report.Summary.TotalProjects

====
